---- MODULE Spec2Model ----
(***************************************************************************)
(* Model of the selection-and-history core of the in-browser raster image  *)
(* editor: HistoryService (undo/redo stack over encoded raster snapshots), *)
(* the CanvasEditor host that owns the raster and calls the services, and  *)
(* BrushSelectionService.                                                  *)
(*                                                                         *)
(* Three specifications share the variables below:                         *)
(*   Spec      - HistoryService driven directly, one call at a time        *)
(*   HostSpec  - the CanvasEditor component and its collaborators          *)
(*   BrushSpec - BrushSelectionService driven directly                     *)
(***************************************************************************)
EXTENDS Integers, Sequences, FiniteSets, TLC

\* JavaScript null, for references
Null == "null"

\* JavaScript null, for the coordinates lastX and lastY (real ones are >= 0)
NoCoord == -1

\* JavaScript NaN, for sizes and tolerances; every comparison with it is false
NaN == -1000

(* ------------------------------------------------------------------ *)
(* Bounds                                                             *)
(* ------------------------------------------------------------------ *)
\* largest maxHistorySize a HistoryService is constructed with in Spec
MaxHist == 3
\* number of distinct raster contents the driver of Spec chooses from
MaxRaster == 2
\* history entries the host is followed up to in HostSpec
MaxHostEntries == 2
\* undo/redo restores the host is followed with at once in HostSpec
MaxInFlight == 1
\* number of events the host is followed for in HostSpec
MaxEvents == 7
\* index of the last main canvas bitmap WandSpec starts from
MaxWandRaster == 3
\* number of calls BrushSelectionService is followed for in BrushSpec
MaxBrushCalls == 3
\* number of calls MagicWandService is followed for in WandSpec
MaxWandCalls == 3
\* number of vertices a polygon grows to in PolygonSpec
MaxPoints == 4

(* ------------------------------------------------------------------ *)
(* Raster and snapshot encoding                                       *)
(* ------------------------------------------------------------------ *)
\* canvas width and height in pixels
W == 3
H == 2
Pixels == 0..(W * H - 1)

\* column and row of a pixel of the row-major buffer
PX(p) == p % W

PY(p) == p \div W

\* a fully transparent canvas pixel (what clearRect leaves behind)
Transparent == [r |-> 0, g |-> 0, b |-> 0, a |-> 0]

\* the colours the images and drawings of the model are made of: black, a
\* colour at RGB distance 30 from black, white, and others
Colour(k) ==
    IF k = 0 THEN <<0, 0, 0>>
    ELSE IF k = 1 THEN <<20, 20, 10>>
    ELSE IF k = 2 THEN <<255, 255, 255>>
    ELSE <<(37 * k) % 256, (91 * k) % 256, (53 * k) % 256>>

\* an opaque pixel of colour k
Opaque(k) == [r |-> Colour(k)[1], g |-> Colour(k)[2], b |-> Colour(k)[3],
              a |-> 255]

\* ctx.clearRect(0, 0, width, height)
ClearRect(img) == [p \in Pixels |-> Transparent]

\* one channel of source-over compositing
Blend(cs, as, cd, ad, ao) ==
    (cs * as * 255 + cd * ad * (255 - as)) \div (ao * 255)

\* one pixel of ctx.drawImage under the default source-over compositing
SourceOver(src, dst) ==
    IF src.a = 255 THEN src
    ELSE IF src.a = 0 THEN dst
    ELSE LET ao == src.a + (dst.a * (255 - src.a)) \div 255
         IN  [r |-> Blend(src.r, src.a, dst.r, dst.a, ao),
              g |-> Blend(src.g, src.a, dst.g, dst.a, ao),
              b |-> Blend(src.b, src.a, dst.b, dst.a, ao),
              a |-> ao]

\* ctx.drawImage(img, 0, 0) onto the bitmap dst
DrawImage(img, dst) == [p \in Pixels |-> SourceOver(img[p], dst[p])]

\* canvas.toDataURL('image/png'): a lossless encoding of the raster
ToDataURL(img) == [mime |-> "image/png", px |-> img]

\* the bitmap an Image element holds once img.src = dataUrl has loaded
DecodeImage(url) == url.px

\* rasters the driver of Spec paints: raster k has pixel 0 opaque in colour
\* k and, for odd k, pixel 1 transparent
SampleRaster(k) ==
    [p \in Pixels |-> IF p = 0 THEN Opaque(k)
                      ELSE IF k % 2 = 1 THEN Transparent ELSE Opaque(k + 1)]

SampleRasters == { SampleRaster(k) : k \in 0..MaxRaster }

(* ------------------------------------------------------------------ *)
(* State                                                              *)
(* ------------------------------------------------------------------ *)
VARIABLES
    raster,          \* the main canvas bitmap
    maxHistorySize,  \* HistoryService.maxHistorySize
    historyStack,    \* HistoryService.historyStack (sequence of entries)
    currentIndex,    \* HistoryService.currentIndex (0-based, -1 when empty)
    inflight,        \* restoreState promises not yet settled
    lastCall,        \* the call that completed last and what it returned
    callPre,         \* stack, index and raster when the last call began
    scenario,        \* observer of the save A / paint B / save B / undo / redo run
    overlay,         \* alpha of each pixel of the overlay canvas
    brush,           \* the fields of the BrushSelectionService
    strokeOpen,      \* a startSelection was made and no end or clear since
    wand,            \* the fields of the MagicWandService
    polygon,         \* the fields of the PolygonSelectionService
    host,            \* the React state of the CanvasEditor component
    events,          \* number of events the host has handled
    maskCanvas,      \* the mask canvas a caller hands to MaskService / ExportService
    returned,        \* what the last MaskService / ExportService call returned
    webLLM           \* the module state of the Web LLM service and its pending calls

brushVars == <<overlay, brush, strokeOpen>>

hostVars == <<wand, polygon, host>>

ghostVars == <<lastCall, callPre, scenario>>

maskVars == <<maskCanvas, returned>>

histVars == <<raster, maxHistorySize, historyStack, currentIndex, inflight,
              lastCall, callPre, scenario>>

NoCall == [op |-> "none", result |-> FALSE]

\* the Web LLM service as the module is loaded: no engine (0), not
\* initializing, no initialization promise (0), no creation started, no
\* caller waiting, no unload pending
EngineIdle ==
    [engineInstance |-> 0, isInitializing |-> FALSE,
     initializationPromise |-> 0, creations |-> <<>>, waiting |-> <<>>,
     delivered |-> <<>>, unloading |-> 0, overlapped |-> FALSE]

\* JavaScript arrays are 0-based: historyStack[i]
At(stack, i) == stack[i + 1]

(* ------------------------------------------------------------------ *)
(* HistoryService                                                     *)
(* ------------------------------------------------------------------ *)
\* historyStack.slice(0, end)
Slice(stack, end) == SubSeq(stack, 1, end)

\* the entry pushed by saveState (timestamp is never read by any code and
\* is left out)
NewEntry(img) == [dataUrl |-> ToDataURL(img)]

\* faulty variant: the states after currentIndex are kept
TruncatedStackKeepAll(stack, idx) == stack

\* saveState lines 28-31: drop the states after currentIndex
TruncatedStack(stack, idx) ==
    IF idx < Len(stack) - 1 THEN Slice(stack, idx + 1) ELSE stack

\* faulty variant: the index advances even when the oldest entry was shifted out
SaveStateResultAlwaysAdvance(stack, idx, max, img) ==
    LET pushed == Append(TruncatedStack(stack, idx), NewEntry(img))
    IN  IF Len(pushed) > max
        THEN [stack |-> Tail(pushed), idx |-> idx + 1]
        ELSE [stack |-> pushed, idx |-> idx + 1]

\* faulty variant: pop() instead of shift() when over the limit
SaveStateResultPop(stack, idx, max, img) ==
    LET pushed == Append(TruncatedStack(stack, idx), NewEntry(img))
    IN  IF Len(pushed) > max
        THEN [stack |-> SubSeq(pushed, 1, Len(pushed) - 1), idx |-> idx]
        ELSE [stack |-> pushed, idx |-> idx + 1]

\* saveState lines 33-44: push, then shift when over the limit, else
\* advance the index
SaveStateResult(stack, idx, max, img) ==
    LET pushed == Append(TruncatedStack(stack, idx), NewEntry(img))
    IN  IF Len(pushed) > max
        THEN [stack |-> Tail(pushed), idx |-> idx]
        ELSE [stack |-> pushed, idx |-> idx + 1]

canUndo == currentIndex > 0

canRedo == currentIndex < Len(historyStack) - 1

\* faulty variant: the snapshot is drawn without clearing the canvas first
RestoredRasterNoClear(img, url) == DrawImage(DecodeImage(url), img)

\* restoreState's onload handler: clearRect, then drawImage
RestoredRaster(img, url) == DrawImage(DecodeImage(url), ClearRect(img))

\* historyStack[i] is undefined outside 0..length-1, and reading .dataUrl
\* of undefined throws inside the try block
Defined(stack, i) == 0 <= i /\ i < Len(stack)

\* faulty variant: the catch blocks leave the index where the try block put it
RolledBackNot(op, idx) == idx

\* the catch blocks of undo (line 98) and redo (line 119)
RolledBack(op, idx) == IF op = "undo" THEN idx + 1 ELSE idx - 1

\* inflight without its i-th element
RemoveAt(s, i) == SubSeq(s, 1, i - 1) \o SubSeq(s, i + 1, Len(s))

\* Observer of the round-trip run: step 1 after a successful saveState (a is
\* the raster saved), 2 once the raster was painted to b, 3 after b was
\* saved, 4 after a successful undo, 5 after the successful redo that follows.
NoScenario == [step |-> 0, a |-> <<>>, b |-> <<>>]

Observe(sc, call, img) ==
    IF call = NoCall THEN sc
    ELSE IF call = [op |-> "saveState", result |-> TRUE]
    THEN IF sc.step = 2 THEN [step |-> 3, a |-> sc.a, b |-> img]
         ELSE [step |-> 1, a |-> img, b |-> img]
    ELSE IF call.op = "mutate"
    THEN IF sc.step \in {1, 2} THEN [step |-> 2, a |-> sc.a, b |-> img]
         ELSE NoScenario
    ELSE IF call = [op |-> "undo", result |-> TRUE]
    THEN IF sc.step = 3 THEN [sc EXCEPT !.step = 4] ELSE NoScenario
    ELSE IF call = [op |-> "redo", result |-> TRUE]
    THEN IF sc.step = 4 THEN [sc EXCEPT !.step = 5] ELSE NoScenario
    ELSE NoScenario

\* new HistoryService(max); the driver starts from the first sample raster
HistoryInit ==
    /\ raster = SampleRaster(0)
    /\ maxHistorySize \in 1..MaxHist
    /\ historyStack = <<>>
    /\ currentIndex = -1
    /\ inflight = <<>>
    /\ lastCall = NoCall
    /\ callPre = NoCall
    /\ scenario = NoScenario

\* what a call sees when it starts
PreState == [stack |-> historyStack, idx |-> currentIndex, raster |-> raster]

\* the caller paints the raster between two HistoryService calls
Mutate ==
    /\ inflight = <<>>
    /\ \E r \in SampleRasters \ {raster} : raster' = r
    /\ lastCall' = [op |-> "mutate", result |-> TRUE]
    /\ UNCHANGED <<maxHistorySize, historyStack, currentIndex, inflight, callPre>>
    /\ scenario' = Observe(scenario, lastCall', raster')

\* saveState(canvas): canvas may be null, and toDataURL may throw
saveState ==
    /\ inflight = <<>>
    /\ callPre' = PreState
    /\ \E canvasPresent \in BOOLEAN, encodeOk \in BOOLEAN :
         IF canvasPresent /\ encodeOk
         THEN LET res == SaveStateResult(historyStack, currentIndex,
                                         maxHistorySize, raster)
              IN  /\ historyStack' = res.stack
                  /\ currentIndex' = res.idx
                  /\ lastCall' = [op |-> "saveState", result |-> TRUE]
         ELSE /\ lastCall' = [op |-> "saveState", result |-> FALSE]
              /\ UNCHANGED <<historyStack, currentIndex>>
    /\ UNCHANGED <<raster, maxHistorySize, inflight>>
    /\ scenario' = Observe(scenario, lastCall', raster')

\* faulty variant: the index is decremented before canUndo is consulted
undoDecrementFirst ==
    /\ inflight = <<>>
    /\ callPre' = PreState
    /\ IF ~canUndo
       THEN /\ currentIndex' = currentIndex - 1
            /\ lastCall' = [op |-> "undo", result |-> FALSE]
            /\ UNCHANGED inflight
       ELSE /\ currentIndex' = currentIndex - 1
            /\ inflight' = <<[op |-> "undo",
                              dataUrl |-> At(historyStack, currentIndex - 1).dataUrl]>>
            /\ lastCall' = NoCall
    /\ UNCHANGED <<raster, maxHistorySize, historyStack>>
    /\ scenario' = Observe(scenario, lastCall', raster')

\* undo(canvas) up to the await: guard, decrement, read the entry, start
\* the image load
undo ==
    /\ inflight = <<>>
    /\ callPre' = PreState
    /\ IF ~canUndo
       THEN /\ lastCall' = [op |-> "undo", result |-> FALSE]
            /\ UNCHANGED <<currentIndex, inflight>>
       ELSE IF Defined(historyStack, currentIndex - 1)
       THEN /\ currentIndex' = currentIndex - 1
            /\ inflight' = <<[op |-> "undo",
                              dataUrl |-> At(historyStack, currentIndex - 1).dataUrl]>>
            /\ lastCall' = NoCall
       ELSE /\ currentIndex' = RolledBack("undo", currentIndex - 1)
            /\ lastCall' = [op |-> "undo", result |-> FALSE]
            /\ UNCHANGED inflight
    /\ UNCHANGED <<raster, maxHistorySize, historyStack>>
    /\ scenario' = Observe(scenario, lastCall', raster')

\* redo(canvas) up to the await
redo ==
    /\ inflight = <<>>
    /\ callPre' = PreState
    /\ IF ~canRedo
       THEN /\ lastCall' = [op |-> "redo", result |-> FALSE]
            /\ UNCHANGED <<currentIndex, inflight>>
       ELSE IF Defined(historyStack, currentIndex + 1)
       THEN /\ currentIndex' = currentIndex + 1
            /\ inflight' = <<[op |-> "redo",
                              dataUrl |-> At(historyStack, currentIndex + 1).dataUrl]>>
            /\ lastCall' = NoCall
       ELSE /\ currentIndex' = RolledBack("redo", currentIndex + 1)
            /\ lastCall' = [op |-> "redo", result |-> FALSE]
            /\ UNCHANGED inflight
    /\ UNCHANGED <<raster, maxHistorySize, historyStack>>
    /\ scenario' = Observe(scenario, lastCall', raster')

\* img.onload: the snapshot is drawn and undo/redo returns true
RestoreLoaded ==
    /\ \E i \in 1..Len(inflight) :
         /\ raster' = RestoredRaster(raster, inflight[i].dataUrl)
         /\ lastCall' = [op |-> inflight[i].op, result |-> TRUE]
         /\ inflight' = RemoveAt(inflight, i)
    /\ UNCHANGED <<maxHistorySize, historyStack, currentIndex, callPre>>
    /\ scenario' = Observe(scenario, lastCall', raster')

\* img.onerror: the promise rejects, the catch block restores the index
\* and undo/redo returns false
RestoreFailed ==
    /\ \E i \in 1..Len(inflight) :
         /\ currentIndex' = RolledBack(inflight[i].op, currentIndex)
         /\ lastCall' = [op |-> inflight[i].op, result |-> FALSE]
         /\ inflight' = RemoveAt(inflight, i)
    /\ UNCHANGED <<raster, maxHistorySize, historyStack, callPre>>
    /\ scenario' = Observe(scenario, lastCall', raster')

clearHistory ==
    /\ inflight = <<>>
    /\ historyStack' = <<>>
    /\ currentIndex' = -1
    /\ lastCall' = [op |-> "clearHistory", result |-> TRUE]
    /\ UNCHANGED <<raster, maxHistorySize, inflight, callPre>>
    /\ scenario' = Observe(scenario, lastCall', raster')

(* ------------------------------------------------------------------ *)
(* BrushSelectionService                                              *)
(* ------------------------------------------------------------------ *)
\* alpha of fillStyle rgba(255,107,107,0.7) and strokeStyle rgba(..,0.9)
FillAlpha == 178

StrokeAlpha == 230

\* lineWidth of the circle outline
LineWidth == 2

\* alpha a partly covered pixel at the rim of a stamp can receive from
\* anti-aliasing (0: the rim falls between pixels)
FringeAlphas == {0, 8}

\* brush sizes the driver of BrushSpec passes to setBrushSize
SizeInputs == {0, 1, 3, 50, 51, NaN}

\* alpha of source-over compositing of a source of alpha s over alpha d
Over(s, d) == s + (d * (255 - s)) \div 255

\* Math.floor(Math.sqrt(n))
ISqrt(n) == CHOOSE k \in 0..n : k * k <= n /\ (k + 1) * (k + 1) > n

\* JavaScript !v for a coordinate: null and 0 are both falsy
Falsy(v) == v = NoCoord \/ v = 0

\* squared distance, in half pixels, between pixel p and the point whose
\* doubled coordinates are (x2, y2)
Dist2(p, x2, y2) ==
    (2 * PX(p) - x2) * (2 * PX(p) - x2) + (2 * PY(p) - y2) * (2 * PY(p) - y2)

\* drawBrush: a filled circle of diameter size, then its outline of width
\* LineWidth, composited onto the overlay; f is the rim alpha; arc() with
\* a NaN radius adds nothing to the path
DrawBrush(ov, x2, y2, size, f) ==
    IF size = NaN THEN ov ELSE
    [p \in Pixels |->
        LET d2 == Dist2(p, x2, y2)
            inFill == d2 <= size * size
            inRing == /\ d2 <= (size + LineWidth) * (size + LineWidth)
                      /\ (size <= LineWidth
                          \/ d2 >= (size - LineWidth) * (size - LineWidth))
            inRim == /\ ~inFill /\ ~inRing
                     /\ d2 <= (size + 2 * LineWidth) * (size + 2 * LineWidth)
            filled == IF inFill THEN Over(FillAlpha, ov[p]) ELSE ov[p]
        IN  IF inRing THEN Over(StrokeAlpha, filled)
            ELSE IF inRim THEN Over(f, filled)
            ELSE filled]

\* the loop of drawLineTo: stamps i..steps along the segment from
\* (lx, ly) to (x, y); steps is 1 or 2 on canvases up to 5 pixels across,
\* so the doubled coordinates are whole numbers
RECURSIVE DrawStamps(_, _, _, _, _, _, _, _, _)
DrawStamps(ov, i, steps, lx, ly, x, y, size, f) ==
    IF i > steps THEN ov
    ELSE DrawStamps(
            DrawBrush(ov, 2 * lx + (2 * (x - lx) * i) \div steps,
                          2 * ly + (2 * (y - ly) * i) \div steps, size, f),
            i + 1, steps, lx, ly, x, y, size, f)

\* drawLineTo(x, y)
DrawLineTo(b, ov, x, y, f) ==
    LET lx == IF Falsy(b.lastX) THEN x ELSE b.lastX
        ly == IF Falsy(b.lastX) THEN y ELSE b.lastY
        distance == ISqrt((x - lx) * (x - lx) + (y - ly) * (y - ly))
        steps == IF distance \div 2 > 1 THEN distance \div 2 ELSE 1
    IN  [b |-> [b EXCEPT !.lastX = x, !.lastY = y],
         ov |-> DrawStamps(ov, 0, steps, lx, ly, x, y, b.brushSize, f)]

\* generateSelectionMask with the threshold getSelectionBounds uses
BinarizedCopyHigh(ov) == [p \in Pixels |-> IF ov[p] > 200 THEN 255 ELSE ov[p]]

\* the loop of generateSelectionMask over a copy of the overlay
BinarizedCopy(ov) == [p \in Pixels |-> IF ov[p] > 10 THEN 255 ELSE ov[p]]

\* the overlay after clearRect
ClearedOverlay == [p \in Pixels |-> 0]

\* clearMask()
BrushClearMask(b, ov) ==
    [b |-> [b EXCEPT !.selectionMask = Null, !.lastX = NoCoord, !.lastY = NoCoord],
     ov |-> ClearedOverlay]

\* new BrushSelectionService(overlayCtx, width, height)
NewBrush(ov) ==
    BrushClearMask([brushSize |-> 10, isDrawing |-> FALSE,
                    selectionMask |-> Null, lastX |-> NoCoord, lastY |-> NoCoord,
                    maskData |-> ClearedOverlay], ov)

\* setBrushSize(size) accepts the size
SizeAccepted(size) == ~(size # NaN /\ (size < 1 \/ size > 50))

\* startSelection(x, y)
BrushStart(b, ov, x, y, f) ==
    [b |-> [b EXCEPT !.isDrawing = TRUE, !.lastX = x, !.lastY = y],
     ov |-> DrawBrush(ov, 2 * x, 2 * y, b.brushSize, f)]

\* continueSelection(x, y)
BrushContinue(b, ov, x, y, f) ==
    IF ~b.isDrawing THEN [b |-> b, ov |-> ov] ELSE DrawLineTo(b, ov, x, y, f)

\* endSelection()
BrushEnd(b, ov) ==
    [b |-> [b EXCEPT !.isDrawing = FALSE, !.lastX = NoCoord, !.lastY = NoCoord,
                     !.maskData = BinarizedCopy(ov),
                     !.selectionMask = "maskCanvas"],
     ov |-> ov]

\* getSelectionMask() returns a mask (the mask canvas) rather than null
BrushHasMask(b) == b.selectionMask # Null

BrushInit ==
    /\ brush = NewBrush(ClearedOverlay).b
    /\ overlay = NewBrush(ClearedOverlay).ov
    /\ strokeOpen = FALSE

startSelection ==
    \E x \in 0..(W - 1), y \in 0..(H - 1), f \in FringeAlphas :
        LET res == BrushStart(brush, overlay, x, y, f)
        IN  /\ brush' = res.b
            /\ overlay' = res.ov
            /\ strokeOpen' = TRUE

continueSelection ==
    \E x \in 0..(W - 1), y \in 0..(H - 1), f \in FringeAlphas :
        LET res == BrushContinue(brush, overlay, x, y, f)
        IN  /\ brush' = res.b
            /\ overlay' = res.ov
            /\ UNCHANGED strokeOpen

endSelection ==
    LET res == BrushEnd(brush, overlay)
    IN  /\ brush' = res.b
        /\ overlay' = res.ov
        /\ strokeOpen' = FALSE

clearMask ==
    LET res == BrushClearMask(brush, overlay)
    IN  /\ brush' = res.b
        /\ overlay' = res.ov
        /\ strokeOpen' = FALSE

\* setBrushSize(size): throws, changing nothing, when out of range
setBrushSize ==
    \E size \in SizeInputs :
        /\ brush' = IF SizeAccepted(size)
                    THEN [brush EXCEPT !.brushSize = size] ELSE brush
        /\ UNCHANGED <<overlay, strokeOpen>>

(* ------------------------------------------------------------------ *)
(* MagicWandService                                                   *)
(* ------------------------------------------------------------------ *)
\* alpha the flood fill writes into the overlay (0.7 opacity)
MarkerAlpha == 178

\* colorsWithinTolerance: sqrt(dr^2 + dg^2 + db^2) <= tolerance; the
\* comparison is false when the tolerance is NaN
ColorsWithinTolerance(px, target, tolerance) ==
    /\ tolerance # NaN
    /\ tolerance >= 0
    /\ (px.r - target.r) * (px.r - target.r)
         + (px.g - target.g) * (px.g - target.g)
         + (px.b - target.b) * (px.b - target.b) <= tolerance * tolerance

\* the 4-directional neighbours inside the canvas
Neighbours(p) ==
    { q \in Pixels : \/ PY(q) = PY(p) /\ (PX(q) = PX(p) + 1 \/ PX(q) = PX(p) - 1)
                     \/ PX(q) = PX(p) /\ (PY(q) = PY(p) + 1 \/ PY(q) = PY(p) - 1) }

\* the Euclidean distance between the RGB values of a and b is at most t
RgbNear(a, b, t) ==
    (a.r - b.r) * (a.r - b.r) + (a.g - b.g) * (a.g - b.g)
       + (a.b - b.b) * (a.b - b.b) <= t * t

\* the pixels reachable from region by 4-neighbour steps through pixels
\* whose colour is within distance t of target
RECURSIVE Flood(_, _, _, _)
Flood(img, target, t, region) ==
    LET grown == region \cup
                   { q \in UNION { Neighbours(p) : p \in region } :
                       RgbNear(img[q], target, t) }
    IN  IF grown = region THEN region
        ELSE Flood(img, target, t, grown)

\* getImageData(x, y, 1, 1): the pixel, or transparent black off the canvas
TargetColor(img, x, y) ==
    IF x \in 0..(W - 1) /\ y \in 0..(H - 1) THEN img[y * W + x] ELSE Transparent

\* y * canvasWidth + x, the position of cell <<x, y>> in the pixel arrays
CellIndex(c) == c[2] * W + c[1]

\* faulty variant: only the right and lower neighbours are listed
CellNeighboursForward(c) ==
    << <<c[1] + 1, c[2]>>, <<c[1], c[2] + 1>> >>

\* the neighbours of a cell in the order floodFill lists them
CellNeighbours(c) ==
    << <<c[1] + 1, c[2]>>, <<c[1] - 1, c[2]>>,
       <<c[1], c[2] + 1>>, <<c[1], c[2] - 1>> >>

\* the queue loop of floodFill: queue holds the cells still to process,
\* visited the array positions marked, marked the positions written to the
\* overlay, processed the cells taken from the queue so far; a position
\* outside the arrays reads undefined and never matches
RECURSIVE FloodQueue(_, _, _, _, _, _, _)
FloodQueue(img, target, tolerance, queue, visited, marked, processed) ==
    IF queue = <<>> THEN [marked |-> marked, processed |-> processed]
    ELSE LET c == Head(queue)
             i == CellIndex(c)
             hit == /\ i \in Pixels
                    /\ ColorsWithinTolerance(img[i], target, tolerance)
             Fresh(n) == /\ n[1] >= 0 /\ n[1] < W /\ n[2] >= 0 /\ n[2] < H
                         /\ CellIndex(n) \notin visited
             pushed == IF hit THEN SelectSeq(CellNeighbours(c), Fresh) ELSE <<>>
         IN  FloodQueue(img, target, tolerance,
                        Tail(queue) \o pushed,
                        visited \cup { CellIndex(pushed[k]) : k \in 1..Len(pushed) },
                        IF hit THEN marked \cup {i} ELSE marked,
                        Append(processed, c))

\* faulty variant: the starting cell is queued without being marked visited
FloodFillRunSeedUnmarked(img, x, y, target, tolerance) ==
    FloodQueue(img, target, tolerance, << <<x, y>> >>, {}, {}, <<>>)

\* floodFill(startX, startY, targetColor): the starting cell is queued and
\* marked visited, then the queue is processed until it is empty
FloodFillRun(img, x, y, target, tolerance) ==
    FloodQueue(img, target, tolerance, << <<x, y>> >>, {y * W + x}, {}, <<>>)

\* floodFill(startX, startY, targetColor): the positions it marks
FloodFill(img, x, y, target, tolerance) ==
    FloodFillRun(img, x, y, target, tolerance).marked

\* generateSelectionMask of the wand: alpha > 10 becomes 255, the rest 0
WandMaskOf(ov) == [p \in Pixels |-> IF ov[p] > 10 THEN 255 ELSE 0]

\* clearMask()
WandClearMask(w, ov) ==
    [w |-> [w EXCEPT !.selectionMask = Null, !.maskData = ClearedOverlay],
     ov |-> ClearedOverlay]

\* new MagicWandService(ctx, overlayCtx, width, height)
NewWand(ov) ==
    WandClearMask([tolerance |-> 30, selectionMask |-> Null,
                   maskData |-> ClearedOverlay], ov)

\* setTolerance(tolerance) accepts the value
ToleranceAccepted(t) == ~(t # NaN /\ (t < 0 \/ t > 255))

\* faulty variant: the previous selection is cleared on every call
PerformMagicWandReplacing(w, ov, img, x, y, isShiftClick) ==
    LET region == FloodFill(img, x, y, TargetColor(img, x, y), w.tolerance)
        ov1 == [p \in Pixels |-> IF p \in region THEN MarkerAlpha ELSE 0]
    IN  IF Cardinality(region) > 0
        THEN [w |-> [w EXCEPT !.maskData = WandMaskOf(ov1),
                              !.selectionMask = "maskCanvas"],
              ov |-> ov1, success |-> TRUE]
        ELSE [w |-> [w EXCEPT !.maskData = ClearedOverlay], ov |-> ov1,
              success |-> FALSE]

\* performMagicWand(x, y, isShiftClick) on the main canvas bitmap img
PerformMagicWand(w, ov, img, x, y, isShiftClick) ==
    LET ov0 == IF isShiftClick THEN ov ELSE ClearedOverlay
        md0 == IF isShiftClick THEN w.maskData ELSE ClearedOverlay
        region == FloodFill(img, x, y, TargetColor(img, x, y), w.tolerance)
        ov1 == [p \in Pixels |-> IF p \in region THEN MarkerAlpha ELSE ov0[p]]
    IN  IF Cardinality(region) > 0
        THEN [w |-> [w EXCEPT !.maskData = WandMaskOf(ov1),
                              !.selectionMask = "maskCanvas"],
              ov |-> ov1, success |-> TRUE]
        ELSE [w |-> [w EXCEPT !.maskData = md0], ov |-> ov1,
              success |-> FALSE]

\* tolerances the driver of WandSpec passes to setTolerance
ToleranceInputs == {-1, 0, 30, 255, 256, NaN}

\* seed columns the driver of WandSpec clicks at: the canvas and one
\* column to either side
SeedColumns == (-1)..W

\* rows of the seeds: the top and the bottom row
SeedRows == {0, H - 1}

\* the main canvas bitmaps of WandSpec: uniform, one odd pixel, three
\* colours in turn, a checkerboard, one odd column
WandRaster(k) ==
    [p \in Pixels |->
        IF k = 0 THEN Opaque(0)
        ELSE IF k = 1 THEN (IF p = 0 THEN Opaque(2) ELSE Opaque(0))
        ELSE IF k = 2 THEN Opaque(p % 3)
        ELSE IF k = 3 THEN (IF (PX(p) + PY(p)) % 2 = 0 THEN Opaque(0)
                            ELSE Opaque(2))
        ELSE IF k = 4 THEN (IF PX(p) = 0 THEN Opaque(0) ELSE Opaque(1))
        ELSE Opaque((p + k) % 3)]

\* the wand and the overlay as a call finds them
WandPre == [w |-> wand, ov |-> overlay]

WandInit ==
    /\ raster \in { WandRaster(k) : k \in 0..MaxWandRaster }
    /\ wand = NewWand(ClearedOverlay).w
    /\ overlay = NewWand(ClearedOverlay).ov
    /\ lastCall = NoCall
    /\ callPre = NoCall

performMagicWand ==
    \E x \in SeedColumns, y \in SeedRows, isShiftClick \in BOOLEAN :
        \E res \in {PerformMagicWand(wand, overlay, raster, x, y,
                                     isShiftClick)} :
            /\ wand' = res.w
            /\ overlay' = res.ov
            /\ callPre' = WandPre
            /\ lastCall' = [op |-> "performMagicWand", result |-> res.success,
                            x |-> x, y |-> y, isShiftClick |-> isShiftClick]
            /\ UNCHANGED raster

\* setTolerance(tolerance): throws, changing nothing, when out of range
setTolerance ==
    \E tolerance \in ToleranceInputs :
        /\ wand' = IF ToleranceAccepted(tolerance)
                   THEN [wand EXCEPT !.tolerance = tolerance] ELSE wand
        /\ callPre' = WandPre
        /\ lastCall' = [op |-> "setTolerance",
                        result |-> ToleranceAccepted(tolerance),
                        tolerance |-> tolerance]
        /\ UNCHANGED <<overlay, raster>>

\* MagicWandService.clearMask()
wandClearMask ==
    /\ wand' = WandClearMask(wand, overlay).w
    /\ overlay' = WandClearMask(wand, overlay).ov
    /\ callPre' = WandPre
    /\ lastCall' = [op |-> "clearMask", result |-> TRUE]
    /\ UNCHANGED raster

(* ------------------------------------------------------------------ *)
(* PolygonSelectionService                                            *)
(* ------------------------------------------------------------------ *)
\* snap radius of addPoint, in pixels
SnapRadius == 10

\* radius of the vertex markers
PointRadius == 4

\* alpha a pixel lying on the edge of the filled polygon can receive from
\* anti-aliasing
EdgeAlphas == {0, 128}

\* no preview position
NoPoint == <<>>

\* twice the signed area of triangle a, b, p (isLeft test)
Cross(a, b, p) ==
    (b[1] - a[1]) * (p[2] - a[2]) - (p[1] - a[1]) * (b[2] - a[2])

SqDist(a, b) ==
    (a[1] - b[1]) * (a[1] - b[1]) + (a[2] - b[2]) * (a[2] - b[2])

\* pixel centre p lies within distance d of segment a-b
NearSegment(p, a, b, d) ==
    LET l2 == SqDist(a, b)
        t == (p[1] - a[1]) * (b[1] - a[1]) + (p[2] - a[2]) * (b[2] - a[2])
    IN  IF l2 = 0 \/ t <= 0 THEN SqDist(p, a) <= d * d
        ELSE IF t >= l2 THEN SqDist(p, b) <= d * d
        ELSE SqDist(p, a) * l2 - t * t <= d * d * l2

\* the closed path through pts as a sequence of edges <<from, to>>
ClosedEdges(pts) ==
    [i \in 1..Len(pts) |-> <<pts[i], pts[(i % Len(pts)) + 1]>>]

\* the path through pts (and on to the preview position) left open
OpenEdges(pts, mouse) ==
    LET path == IF mouse = NoPoint THEN pts ELSE Append(pts, mouse)
    IN  [i \in 1..(Len(path) - 1) |-> <<path[i], path[i + 1]>>]

\* winding number of the closed path pts around p (nonzero fill rule)
RECURSIVE Winding(_, _, _)
Winding(edges, i, p) ==
    IF i > Len(edges) THEN 0
    ELSE LET a == edges[i][1]
             b == edges[i][2]
             step == IF a[2] <= p[2]
                     THEN IF b[2] > p[2] /\ Cross(a, b, p) > 0 THEN 1 ELSE 0
                     ELSE IF b[2] <= p[2] /\ Cross(a, b, p) < 0 THEN -1 ELSE 0
         IN  step + Winding(edges, i + 1, p)

OnPath(edges, p, d) ==
    \E i \in 1..Len(edges) : NearSegment(p, edges[i][1], edges[i][2], d)

Centre(p) == <<PX(p), PY(p)>>

\* alpha of each pixel of the filled closed polygon; e is the edge alpha
FilledAt(pts, e, p) ==
    LET edges == ClosedEdges(pts)
    IN  IF OnPath(edges, Centre(p), 0) THEN e
        ELSE IF Winding(edges, 1, Centre(p)) # 0 THEN 255
        ELSE 0

FilledPolygon(pts, e) == [p \in Pixels |-> FilledAt(pts, e, p)]

\* drawPolygon: clear the overlay, stroke the open path, mark the vertices
\* and, when the preview position is within the snap radius of the first
\* vertex, draw the close hint of radius 8 over it
PolygonDrawn(pg) ==
    LET edges == OpenEdges(pg.points, pg.currentMousePos)
    IN
    [p \in Pixels |->
        LET line == IF OnPath(edges, Centre(p), 1)
                    THEN StrokeAlpha ELSE 0
            marked == IF \E i \in 1..Len(pg.points) :
                           SqDist(Centre(p), pg.points[i])
                              <= PointRadius * PointRadius
                      THEN 255 ELSE line
            hint == /\ pg.currentMousePos # NoPoint
                    /\ Len(pg.points) >= 3
                    /\ SqDist(pg.currentMousePos, pg.points[1])
                          <= SnapRadius * SnapRadius
                    /\ SqDist(Centre(p), pg.points[1]) <= 8 * 8
        IN  IF Len(pg.points) = 0 THEN 0
            ELSE IF hint THEN Over(127, marked)
            ELSE marked]

\* fillPolygon: the translucent fill and the outline, over what is there
PolygonFilled(pg, ov, e) ==
    LET edges == ClosedEdges(pg.points)
    IN
    [p \in Pixels |->
        LET f == FilledAt(pg.points, e, p)
            filled == IF f = 255 THEN Over(FillAlpha, ov[p])
                      ELSE IF f > 0 THEN Over((FillAlpha * f) \div 255, ov[p])
                      ELSE ov[p]
        IN  IF OnPath(edges, Centre(p), 1)
            THEN Over(StrokeAlpha, filled) ELSE filled]

\* faulty variant: clearMask() leaves the vertices in place
PolygonClearMaskKeepsPoints(pg, ov) ==
    [pg |-> [points |-> pg.points, isComplete |-> FALSE,
             selectionMask |-> Null, maskData |-> ClearedOverlay,
             currentMousePos |-> NoPoint],
     ov |-> ClearedOverlay]

\* clearMask()
PolygonClearMask(pg, ov) ==
    [pg |-> [points |-> <<>>, isComplete |-> FALSE, selectionMask |-> Null,
             maskData |-> ClearedOverlay, currentMousePos |-> NoPoint],
     ov |-> ClearedOverlay]

\* new PolygonSelectionService(overlayCtx, width, height)
NewPolygon(ov) == PolygonClearMask([points |-> <<>>], ov)

\* closePolygon()
ClosePolygon(pg, ov, e) ==
    IF Len(pg.points) < 3 THEN [pg |-> pg, ov |-> ov]
    ELSE LET closed == [pg EXCEPT !.isComplete = TRUE,
                                  !.currentMousePos = NoPoint]
         IN  [pg |-> [closed EXCEPT !.maskData = FilledPolygon(pg.points, e),
                                    !.selectionMask = "maskCanvas"],
              ov |-> PolygonFilled(closed, ov, e)]

\* faulty variant: a click on a complete polygon still appends a vertex
AddPointUnguarded(pg, ov, x, y, e) ==
    LET pushed == [pg EXCEPT !.points = Append(pg.points, <<x, y>>)]
    IN  IF /\ ~pg.isComplete
           /\ Len(pg.points) >= 3
           /\ SqDist(<<x, y>>, pg.points[1]) <= SnapRadius * SnapRadius
        THEN [pg |-> ClosePolygon(pg, ov, e).pg,
              ov |-> ClosePolygon(pg, ov, e).ov, added |-> TRUE]
        ELSE [pg |-> pushed, ov |-> PolygonDrawn(pushed), added |-> TRUE]

\* faulty variant: a click at exactly the snap radius does not close
AddPointStrict(pg, ov, x, y, e) ==
    IF pg.isComplete THEN [pg |-> pg, ov |-> ov, added |-> FALSE]
    ELSE IF /\ Len(pg.points) >= 3
            /\ SqDist(<<x, y>>, pg.points[1]) < SnapRadius * SnapRadius
    THEN [pg |-> ClosePolygon(pg, ov, e).pg, ov |-> ClosePolygon(pg, ov, e).ov,
          added |-> TRUE]
    ELSE LET pushed == [pg EXCEPT !.points = Append(pg.points, <<x, y>>)]
         IN  [pg |-> pushed, ov |-> PolygonDrawn(pushed), added |-> TRUE]

\* addPoint(x, y)
AddPoint(pg, ov, x, y, e) ==
    IF pg.isComplete THEN [pg |-> pg, ov |-> ov, added |-> FALSE]
    ELSE IF /\ Len(pg.points) >= 3
            /\ SqDist(<<x, y>>, pg.points[1]) <= SnapRadius * SnapRadius
    THEN LET closed == ClosePolygon(pg, ov, e)
         IN  [pg |-> closed.pg, ov |-> closed.ov, added |-> TRUE]
    ELSE LET pushed == [pg EXCEPT !.points = Append(pg.points, <<x, y>>)]
         IN  [pg |-> pushed, ov |-> PolygonDrawn(pushed), added |-> TRUE]

\* updateMousePosition(x, y)
UpdateMousePosition(pg, ov, x, y) ==
    IF pg.isComplete \/ Len(pg.points) = 0 THEN [pg |-> pg, ov |-> ov]
    ELSE LET moved == [pg EXCEPT !.currentMousePos = <<x, y>>]
         IN  [pg |-> moved, ov |-> PolygonDrawn(moved)]

(* ------------------------------------------------------------------ *)
(* MaskService                                                        *)
(* ------------------------------------------------------------------ *)
\* a pixel as the canvas bitmap keeps it after putImageData: colour is
\* stored premultiplied, so a pixel of alpha 0 has no colour left
PutPixel(px) == IF px.a = 0 THEN Transparent ELSE px

\* deleteSelectedArea(mask, 'transparent')
DeleteSelectedArea(img, mask) ==
    [p \in Pixels |->
        IF mask[p] > 128 THEN PutPixel([img[p] EXCEPT !.a = 0]) ELSE img[p]]

\* invertSelection with the threshold of applyMaskToImageData: alpha 128
\* counts as selected
InvertSelectionInclusive(mask) ==
    [p \in Pixels |-> IF mask[p] >= 128 THEN 0 ELSE 255]

\* invertSelection(mask)
InvertSelection(mask) == [p \in Pixels |-> IF mask[p] > 128 THEN 0 ELSE 255]

(* ------------------------------------------------------------------ *)
(* CanvasEditor and its collaborators                                 *)
(* ------------------------------------------------------------------ *)
\* new HistoryService(50)
HostHistorySize == 50

\* brush sizes and tolerances the controls are followed with in HostSpec
HostSizes == {10, 20}

HostTolerances == {30, 60}

Tools == {"brush", "magicWand", "polygon"}

\* canvas columns the pointer events of HostSpec arrive at; the strokes and
\* polygons of HostSpec are drawn with rim and edge alpha 0
HostColumns == {0, W - 1}

\* canvas rows the pointer events of HostSpec arrive at
HostRows == {0}

\* imageData.originalImage: a black pixel followed by white ones
HostImage == [p \in Pixels |-> IF p = 0 THEN Opaque(0) ELSE Opaque(2)]

\* the pixel a draw command paints, and a visible pixel after a filter
DrawnPixel == Opaque(3)

FilteredPixel == Opaque(1)

\* window.saveCanvasState: CanvasEditor assigns window.currentCanvas only
WindowSaveCanvasState == Null

\* useState defaults of CanvasEditor
HostState0 ==
    [brushSize |-> 10, hasSelection |-> FALSE, isBrushActive |-> FALSE,
     isPolygonActive |-> FALSE, selectionMode |-> TRUE,
     currentTool |-> "brush", magicWandTolerance |-> 30]

\* the selector and host variables of a specification that has no host
HostIdle ==
    /\ wand = NewWand(ClearedOverlay).w
    /\ polygon = NewPolygon(ClearedOverlay).pg
    /\ host = HostState0
    /\ events = 0
    /\ maskCanvas = Null
    /\ returned = Null
    /\ webLLM = EngineIdle

\* the restores of a discarded HistoryService still draw when they load,
\* but roll back the index of the discarded service
Orphaned(fl) == [i \in 1..Len(fl) |-> [fl[i] EXCEPT !.stale = TRUE]]

\* the effect of lines 39-85: size the canvases, draw the image, build the
\* services, set size and tolerance, save the initial state
InitEffect(size, tolerance) ==
    /\ raster' = DrawImage(HostImage, ClearRect(raster))
    /\ overlay' = NewPolygon(NewWand(NewBrush(ClearedOverlay).ov).ov).ov
    /\ brush' = [NewBrush(ClearedOverlay).b EXCEPT !.brushSize = size]
    /\ strokeOpen' = FALSE
    /\ wand' = [NewWand(ClearedOverlay).w EXCEPT !.tolerance = tolerance]
    /\ polygon' = NewPolygon(ClearedOverlay).pg
    /\ maxHistorySize' = HostHistorySize
    /\ LET res == SaveStateResult(<<>>, -1, HostHistorySize,
                                  DrawImage(HostImage, ClearRect(raster)))
       IN  historyStack' = res.stack /\ currentIndex' = res.idx
    /\ inflight' = Orphaned(inflight)

\* the component after it mounted with an image
HostInit ==
    /\ host = HostState0
    /\ events = 0
    /\ maskCanvas = Null
    /\ returned = Null
    /\ webLLM = EngineIdle
    /\ raster = HostImage
    /\ overlay = ClearedOverlay
    /\ brush = NewBrush(ClearedOverlay).b
    /\ strokeOpen = FALSE
    /\ wand = NewWand(ClearedOverlay).w
    /\ polygon = NewPolygon(ClearedOverlay).pg
    /\ maxHistorySize = HostHistorySize
    /\ historyStack = SaveStateResult(<<>>, -1, HostHistorySize, HostImage).stack
    /\ currentIndex = SaveStateResult(<<>>, -1, HostHistorySize, HostImage).idx
    /\ inflight = <<>>
    /\ lastCall = NoCall
    /\ callPre = NoCall
    /\ scenario = NoScenario

\* saveToHistory(): historyService.saveState(canvas) on the bitmap img
SaveToHistory(img) ==
    LET res == SaveStateResult(historyStack, currentIndex, maxHistorySize, img)
    IN  historyStack' = res.stack /\ currentIndex' = res.idx

\* room for one more entry within the bound of HostSpec
CanSave == Len(historyStack) < MaxHostEntries

\* the three clearMask calls of handleClearSelection
ClearedSelectors ==
    LET b == BrushClearMask(brush, overlay)
        w == WandClearMask(wand, b.ov)
        pg == PolygonClearMask(polygon, w.ov)
    IN  [b |-> b.b, w |-> w.w, pg |-> pg.pg, ov |-> pg.ov]

\* handleClearSelection's assignments
ClearSelection ==
    /\ brush' = ClearedSelectors.b
    /\ wand' = ClearedSelectors.w
    /\ polygon' = ClearedSelectors.pg
    /\ overlay' = ClearedSelectors.ov
    /\ strokeOpen' = FALSE
    /\ host' = [host EXCEPT !.hasSelection = FALSE, !.isBrushActive = FALSE,
                            !.isPolygonActive = FALSE]

\* which service's mask the handlers pick: brush, else wand, else polygon
MaskOwner ==
    IF brush.selectionMask # Null THEN "brush"
    ELSE IF wand.selectionMask # Null THEN "magicWand"
    ELSE IF polygon.selectionMask # Null THEN "polygon"
    ELSE Null

\* the alpha channel of the picked mask
PickedMask ==
    IF MaskOwner = "brush" THEN brush.maskData
    ELSE IF MaskOwner = "magicWand" THEN wand.maskData
    ELSE polygon.maskData

handleMouseDown ==
    \E x \in HostColumns, y \in HostRows, shiftKey \in BOOLEAN :
        IF ~host.selectionMode
        THEN UNCHANGED <<histVars, brushVars, hostVars>>
        ELSE IF host.currentTool = "magicWand"
        THEN LET res == PerformMagicWand(wand, overlay, raster, x, y, shiftKey)
             IN  /\ wand' = res.w
                 /\ overlay' = res.ov
                 /\ host' = IF res.success
                            THEN [host EXCEPT !.hasSelection = TRUE] ELSE host
                 /\ UNCHANGED <<histVars, brush, strokeOpen, polygon>>
        ELSE IF host.currentTool = "brush"
        THEN LET res == BrushStart(brush, overlay, x, y, 0)
             IN  /\ brush' = res.b
                 /\ overlay' = res.ov
                 /\ strokeOpen' = TRUE
                 /\ host' = [host EXCEPT !.isBrushActive = TRUE,
                                         !.hasSelection = TRUE]
                 /\ UNCHANGED <<histVars, wand, polygon>>
        ELSE LET res == AddPoint(polygon, overlay, x, y, 0)
             IN  /\ polygon' = res.pg
                 /\ overlay' = res.ov
                 /\ UNCHANGED <<brush, strokeOpen, wand, raster,
                                maxHistorySize, inflight, ghostVars>>
                 /\ IF res.added /\ res.pg.isComplete
                    THEN /\ CanSave
                         /\ host' = [host EXCEPT !.hasSelection = TRUE,
                                                 !.isPolygonActive = FALSE]
                         /\ SaveToHistory(raster)
                    ELSE /\ host' = IF res.added
                                    THEN [host EXCEPT !.isPolygonActive = TRUE]
                                    ELSE host
                         /\ UNCHANGED <<historyStack, currentIndex>>

handleMouseMove ==
    \E x \in HostColumns, y \in HostRows :
        IF host.currentTool = "brush" /\ host.isBrushActive /\ host.selectionMode
        THEN LET res == BrushContinue(brush, overlay, x, y, 0)
             IN  /\ brush' = res.b
                 /\ overlay' = res.ov
                 /\ UNCHANGED <<histVars, strokeOpen, hostVars>>
        ELSE IF host.currentTool = "polygon" /\ host.selectionMode
        THEN LET res == UpdateMousePosition(polygon, overlay, x, y)
             IN  /\ polygon' = res.pg
                 /\ overlay' = res.ov
                 /\ UNCHANGED <<histVars, brush, strokeOpen, wand, host>>
        ELSE UNCHANGED <<histVars, brushVars, hostVars>>

\* onMouseUp and onMouseLeave
handleMouseUp ==
    IF host.currentTool # "brush" \/ ~host.selectionMode
    THEN UNCHANGED <<histVars, brushVars, hostVars>>
    ELSE LET res == BrushEnd(brush, overlay)
         IN  /\ brush' = res.b
             /\ overlay' = res.ov
             /\ strokeOpen' = FALSE
             /\ host' = [host EXCEPT !.isBrushActive = FALSE]
             /\ UNCHANGED <<histVars, wand, polygon>>

handleClearSelection ==
    /\ ClearSelection
    /\ UNCHANGED histVars

handleDeleteSelection ==
    IF MaskOwner = Null
    THEN UNCHANGED <<histVars, brushVars, hostVars>>
    ELSE /\ CanSave
         /\ raster' = DeleteSelectedArea(raster, PickedMask)
         /\ ClearSelection
         /\ SaveToHistory(DeleteSelectedArea(raster, PickedMask))
         /\ UNCHANGED <<maxHistorySize, inflight, ghostVars>>

\* the overlay handleInvertSelection redraws from the inverted mask
InvertedOverlay(mask) ==
    [p \in Pixels |-> IF mask[p] > 200 THEN MarkerAlpha ELSE 0]

handleInvertSelection ==
    IF MaskOwner = Null
    THEN UNCHANGED <<histVars, brushVars, hostVars>>
    ELSE LET inverted == InvertSelection(PickedMask)
         IN  /\ brush' = IF MaskOwner = "brush"
                         THEN [brush EXCEPT !.maskData = inverted,
                                            !.selectionMask = "invertedCanvas"]
                         ELSE brush
             /\ wand' = IF MaskOwner = "magicWand"
                        THEN [wand EXCEPT !.maskData = inverted,
                                          !.selectionMask = "invertedCanvas"]
                        ELSE wand
             /\ polygon' = IF MaskOwner = "polygon"
                           THEN [polygon EXCEPT !.maskData = inverted,
                                                !.selectionMask = "invertedCanvas"]
                           ELSE polygon
             /\ overlay' = InvertedOverlay(inverted)
             /\ UNCHANGED <<histVars, strokeOpen, host>>

handleSelectionModeChange ==
    \E mode \in BOOLEAN :
        IF mode
        THEN /\ host' = [host EXCEPT !.selectionMode = TRUE]
             /\ UNCHANGED <<histVars, brushVars, wand, polygon>>
        ELSE /\ brush' = ClearedSelectors.b
             /\ wand' = ClearedSelectors.w
             /\ polygon' = ClearedSelectors.pg
             /\ overlay' = ClearedSelectors.ov
             /\ strokeOpen' = FALSE
             /\ host' = [host EXCEPT !.selectionMode = FALSE,
                                     !.hasSelection = FALSE,
                                     !.isBrushActive = FALSE,
                                     !.isPolygonActive = FALSE]
             /\ UNCHANGED histVars

handleToolChange ==
    \E tool \in Tools :
        /\ host' = [host EXCEPT !.currentTool = tool, !.isBrushActive = FALSE,
                                !.isPolygonActive = FALSE]
        /\ IF /\ host.currentTool = "polygon" /\ tool # "polygon"
              /\ ~polygon.isComplete
           THEN /\ polygon' = PolygonClearMask(polygon, overlay).pg
                /\ overlay' = PolygonClearMask(polygon, overlay).ov
           ELSE UNCHANGED <<polygon, overlay>>
        /\ UNCHANGED <<histVars, brush, strokeOpen, wand>>

\* setBrushSize(newSize): a changed size re-runs the effect of lines 39-85
handleBrushSizeChange ==
    \E newSize \in HostSizes :
        IF newSize = host.brushSize
        THEN UNCHANGED <<histVars, brushVars, hostVars>>
        ELSE /\ host' = [host EXCEPT !.brushSize = newSize]
             /\ InitEffect(newSize, host.magicWandTolerance)
             /\ UNCHANGED ghostVars

\* setMagicWandTolerance(tolerance) and setTolerance; a changed tolerance
\* re-runs the effect of lines 39-85
handleMagicWandToleranceChange ==
    \E tolerance \in HostTolerances :
        IF tolerance = host.magicWandTolerance
        THEN UNCHANGED <<histVars, brushVars, hostVars>>
        ELSE /\ host' = [host EXCEPT !.magicWandTolerance = tolerance]
             /\ InitEffect(host.brushSize, tolerance)
             /\ UNCHANGED ghostVars

\* handleUndo up to the await inside historyService.undo
handleUndo ==
    /\ Len(inflight) < MaxInFlight
    /\ IF ~canUndo
       THEN UNCHANGED <<currentIndex, inflight>>
       ELSE IF Defined(historyStack, currentIndex - 1)
       THEN /\ currentIndex' = currentIndex - 1
            /\ inflight' = Append(inflight,
                 [op |-> "undo", stale |-> FALSE,
                  dataUrl |-> At(historyStack, currentIndex - 1).dataUrl])
       ELSE /\ currentIndex' = RolledBack("undo", currentIndex - 1)
            /\ UNCHANGED inflight
    /\ UNCHANGED <<raster, maxHistorySize, historyStack, ghostVars,
                   brushVars, hostVars>>

\* handleRedo up to the await inside historyService.redo
handleRedo ==
    /\ Len(inflight) < MaxInFlight
    /\ IF ~canRedo
       THEN UNCHANGED <<currentIndex, inflight>>
       ELSE IF Defined(historyStack, currentIndex + 1)
       THEN /\ currentIndex' = currentIndex + 1
            /\ inflight' = Append(inflight,
                 [op |-> "redo", stale |-> FALSE,
                  dataUrl |-> At(historyStack, currentIndex + 1).dataUrl])
       ELSE /\ currentIndex' = RolledBack("redo", currentIndex + 1)
            /\ UNCHANGED inflight
    /\ UNCHANGED <<raster, maxHistorySize, historyStack, ghostVars,
                   brushVars, hostVars>>

\* the snapshot loads: it is drawn, and handleUndo/handleRedo clear the
\* selection
HostRestoreLoaded ==
    \E i \in 1..Len(inflight) :
        /\ raster' = RestoredRaster(raster, inflight[i].dataUrl)
        /\ inflight' = RemoveAt(inflight, i)
        /\ ClearSelection
        /\ UNCHANGED <<maxHistorySize, historyStack, currentIndex, ghostVars>>

\* the snapshot fails to load: the service that started it restores its index
HostRestoreFailed ==
    \E i \in 1..Len(inflight) :
        /\ currentIndex' = IF inflight[i].stale THEN currentIndex
                           ELSE RolledBack(inflight[i].op, currentIndex)
        /\ inflight' = RemoveAt(inflight, i)
        /\ UNCHANGED <<raster, maxHistorySize, historyStack, ghostVars,
                       brushVars, hostVars>>

\* `if (window.saveCanvasState) window.saveCanvasState()` after the
\* collaborator has left img on the canvas
SaveCanvasStateHook(img) ==
    IF WindowSaveCanvasState # Null
    THEN CanSave /\ SaveToHistory(img)
    ELSE UNCHANGED <<historyStack, currentIndex>>

\* CommandInput.executeNaturalCommand once the command is parsed: a draw
\* command paints the pixels of its shape, then the hook
executeNaturalCommand ==
    \E region \in {{0}} :
        LET drawn == [p \in Pixels |-> IF p \in region THEN DrawnPixel
                                       ELSE raster[p]]
        IN  /\ raster' = drawn
            /\ SaveCanvasStateHook(drawn)
            /\ UNCHANGED <<maxHistorySize, inflight, ghostVars, brushVars,
                           hostVars>>

\* FilterControls.applyFilter: the image as uploaded is put back and
\* filtered, then the hook
applyFilter ==
    LET filtered == [p \in Pixels |->
                        IF HostImage[p].a = 0 THEN Transparent
                        ELSE FilteredPixel]
    IN  /\ raster' = filtered
        /\ SaveCanvasStateHook(filtered)
        /\ UNCHANGED <<maxHistorySize, inflight, ghostVars, brushVars,
                       hostVars>>

\* AIControls.handleRemoveBackground: the background pixels come back
\* transparent, then the hook
handleRemoveBackground ==
    \E background \in {{W * H - 1}} :
        LET removed == [p \in Pixels |-> IF p \in background THEN Transparent
                                         ELSE raster[p]]
        IN  /\ raster' = removed
            /\ SaveCanvasStateHook(removed)
            /\ UNCHANGED <<maxHistorySize, inflight, ghostVars, brushVars,
                           hostVars>>

(* ------------------------------------------------------------------ *)
(* Specification Spec: HistoryService driven directly                 *)
(* ------------------------------------------------------------------ *)
vars == <<histVars, brushVars, hostVars, events, maskVars, webLLM>>

Init == HistoryInit /\ BrushInit /\ HostIdle

Next ==
    \/ Mutate /\ UNCHANGED <<brushVars, hostVars, events, maskVars, webLLM>>
    \/ saveState /\ UNCHANGED <<brushVars, hostVars, events, maskVars, webLLM>>
    \/ undo /\ UNCHANGED <<brushVars, hostVars, events, maskVars, webLLM>>
    \/ redo /\ UNCHANGED <<brushVars, hostVars, events, maskVars, webLLM>>
    \/ RestoreLoaded /\ UNCHANGED <<brushVars, hostVars, events, maskVars, webLLM>>
    \/ RestoreFailed /\ UNCHANGED <<brushVars, hostVars, events, maskVars, webLLM>>
    \/ clearHistory /\ UNCHANGED <<brushVars, hostVars, events, maskVars, webLLM>>

Spec == Init /\ [][Next]_vars

(* ------------------------------------------------------------------ *)
(* Properties of HistoryService (specification Spec)                  *)
(* ------------------------------------------------------------------ *)
SaveOk == [op |-> "saveState", result |-> TRUE]

\* the stack, index and raster are what they were when the last call began
SameAsBefore == PreState = callPre

\* C1: once every call has completed, either the stack is empty and
\* currentIndex = -1, or 0 <= currentIndex < length.
C1_IndexInRange ==
    inflight = <<>> =>
        \/ historyStack = <<>> /\ currentIndex = -1
        \/ 0 <= currentIndex /\ currentIndex < Len(historyStack)

\* a saveState that evicted, on a stack of the largest size
C1_Witness ==
    /\ lastCall = SaveOk
    /\ Len(callPre.stack) = maxHistorySize
    /\ maxHistorySize = MaxHist
    /\ currentIndex = Len(historyStack) - 1

\* C2 as stated: the length never exceeds maxHistorySize, and every
\* successful saveState called on a full stack removes exactly the oldest
\* entry, keeps the others in order and points at the new entry.
C2_EvictsAtFullCapacity ==
    /\ Len(historyStack) <= maxHistorySize
    /\ (lastCall = SaveOk /\ Len(callPre.stack) = maxHistorySize) =>
          /\ historyStack = Tail(callPre.stack) \o <<NewEntry(raster)>>
          /\ currentIndex = Len(historyStack) - 1

\* C2 amended: the length never exceeds maxHistorySize; a successful
\* saveState on a full stack whose currentIndex is at the last entry removes
\* exactly the oldest entry, keeps the others in order and points at the new
\* entry; on a full stack with currentIndex before the last entry it evicts
\* nothing and removes only the entries after currentIndex. After every
\* successful saveState canRedo is false, and canUndo is true when two or
\* more entries remain.
C2_EvictsWhenExceeded ==
    /\ Len(historyStack) <= maxHistorySize
    /\ (lastCall = SaveOk /\ Len(callPre.stack) = maxHistorySize) =>
          /\ callPre.idx = Len(callPre.stack) - 1 =>
                historyStack = Tail(callPre.stack) \o <<NewEntry(raster)>>
          /\ callPre.idx < Len(callPre.stack) - 1 =>
                historyStack = Slice(callPre.stack, callPre.idx + 1)
                                   \o <<NewEntry(raster)>>
          /\ currentIndex = Len(historyStack) - 1
          /\ ~canRedo
          /\ Len(historyStack) >= 2 => canUndo

\* a saveState that evicted the oldest of at least two entries
C2_Witness ==
    /\ lastCall = SaveOk
    /\ maxHistorySize >= 2
    /\ Len(callPre.stack) = maxHistorySize
    /\ callPre.idx = maxHistorySize - 1
    /\ At(callPre.stack, 0) # At(historyStack, 0)

\* C3: a successful saveState ends with currentIndex = length-1 and canRedo
\* false; called while currentIndex < length-1 it keeps entries
\* 0..currentIndex in order, drops exactly the later ones and appends the
\* new snapshot.
C3_BranchTruncation ==
    lastCall = SaveOk =>
        /\ currentIndex = Len(historyStack) - 1
        /\ ~canRedo
        /\ At(historyStack, currentIndex) = NewEntry(raster)
        /\ callPre.idx < Len(callPre.stack) - 1 =>
              historyStack = Slice(callPre.stack, callPre.idx + 1)
                                 \o <<NewEntry(raster)>>

\* a saveState made after an undo, with redo entries to discard
C3_Witness ==
    /\ lastCall = SaveOk
    /\ callPre.idx < Len(callPre.stack) - 1
    /\ callPre.idx >= 0

\* C4: after saveState(A), painting to B and saveState(B), a successful
\* undo leaves the raster equal to A and the successful redo that follows
\* leaves it equal to B; undo and redo do not change the stored snapshots.
C4_UndoRedoRoundTrip ==
    /\ scenario.step = 4 => raster = scenario.a
    /\ scenario.step = 5 => raster = scenario.b
    /\ lastCall.op \in {"undo", "redo"} => historyStack = callPre.stack

\* the whole run happened with two different rasters
C4_Witness == scenario.step = 5 /\ scenario.a # scenario.b

\* C5: when the decode fails during undo or redo, the call returns false
\* and the index, the entries and the raster are as before the call.
C5_DecodeFailureRollsBack ==
    /\ (lastCall = [op |-> "undo", result |-> FALSE] /\ callPre.idx > 0)
          => SameAsBefore
    /\ (lastCall = [op |-> "redo", result |-> FALSE]
          /\ callPre.idx < Len(callPre.stack) - 1) => SameAsBefore

\* a redo whose decode failed
C5_Witness ==
    /\ lastCall = [op |-> "redo", result |-> FALSE]
    /\ callPre.idx < Len(callPre.stack) - 1
    /\ callPre.idx >= 0

\* C6: undo with currentIndex <= 0 and redo with currentIndex >= length-1
\* return false, start no restore and leave index, entries and raster
\* unchanged.
C6_GuardedCallsAreNoOps ==
    /\ (callPre # NoCall /\ callPre.idx <= 0 /\ lastCall.op = "undo") =>
          lastCall.result = FALSE /\ SameAsBefore /\ inflight = <<>>
    /\ (callPre # NoCall /\ callPre.idx >= Len(callPre.stack) - 1
          /\ lastCall.op = "redo") =>
          lastCall.result = FALSE /\ SameAsBefore /\ inflight = <<>>

\* an undo refused at the first of several entries
C6_Witness ==
    /\ lastCall = [op |-> "undo", result |-> FALSE]
    /\ callPre.idx = 0
    /\ Len(historyStack) >= 2

(* ------------------------------------------------------------------ *)
(* Specification BrushSpec: BrushSelectionService driven directly     *)
(* ------------------------------------------------------------------ *)
\* one more call on the BrushSelectionService has returned
Called == events < MaxBrushCalls /\ events' = events + 1

BrushNext ==
    \/ Called /\ startSelection /\ UNCHANGED <<histVars, hostVars, maskVars, webLLM>>
    \/ Called /\ continueSelection /\ UNCHANGED <<histVars, hostVars, maskVars, webLLM>>
    \/ Called /\ endSelection /\ UNCHANGED <<histVars, hostVars, maskVars, webLLM>>
    \/ Called /\ clearMask /\ UNCHANGED <<histVars, hostVars, maskVars, webLLM>>
    \/ Called /\ setBrushSize /\ UNCHANGED <<histVars, hostVars, maskVars, webLLM>>

BrushSpecInit == HistoryInit /\ maxHistorySize = 1 /\ BrushInit /\ HostIdle

BrushSpec == BrushSpecInit /\ [][BrushNext]_vars

(* ------------------------------------------------------------------ *)
(* Properties of BrushSelectionService (specification BrushSpec)      *)
(* ------------------------------------------------------------------ *)
\* C10: with no stroke open (after construction, endSelection or
\* clearMask), continueSelection and endSelection leave the paint layer,
\* the mask canvas and the result of getSelectionMask as they were.
C10_NoStrokeNoOp ==
    [][(~strokeOpen /\ (continueSelection \/ endSelection)) =>
          /\ overlay' = overlay
          /\ brush'.maskData = brush.maskData
          /\ brush'.selectionMask = brush.selectionMask]_vars

\* the state clearMask leaves behind: no stroke open, getSelectionMask
\* null, a blank paint layer
AfterClear == ~strokeOpen /\ ~BrushHasMask(brush) /\ overlay = ClearedOverlay

\* C11: clearMask during a stroke ends the stroke: a continueSelection that
\* follows it without a new startSelection paints nothing on the paint
\* layer, and getSelectionMask stays null.
C11_ClearDropsStroke ==
    [][(AfterClear /\ continueSelection) =>
          /\ overlay' = overlay
          /\ ~BrushHasMask(brush')]_vars

\* the mask is the two-level image of the overlay: 255 where the overlay's
\* alpha is above 10, 0 elsewhere
BinaryMaskOf(mask, ov) ==
    \A p \in Pixels : mask[p] = IF ov[p] > 10 THEN 255 ELSE 0

\* C12: after endSelection, and after a performMagicWand that returned
\* true, the selector's mask is binary: alpha 255 at every pixel whose
\* overlay alpha is above 10, alpha 0 at every other pixel.
C12_MasksAreBinary ==
    [][/\ endSelection => BinaryMaskOf(brush'.maskData, overlay')
       /\ (performMagicWand /\ lastCall'.result) =>
             BinaryMaskOf(wand'.maskData, overlay')]_vars

(* ------------------------------------------------------------------ *)
(* Specification WandSpec: MagicWandService driven directly           *)
(* ------------------------------------------------------------------ *)
\* what WandSpec leaves alone: the history, the brush, the polygon, the host
wandFrame ==
    <<maxHistorySize, historyStack, currentIndex, inflight, scenario,
      brush, strokeOpen, polygon, host, maskVars, webLLM>>

\* one more call on the MagicWandService has returned
WandCalled == events < MaxWandCalls /\ events' = events + 1

WandNext ==
    \/ WandCalled /\ performMagicWand /\ UNCHANGED wandFrame
    \/ WandCalled /\ setTolerance /\ UNCHANGED wandFrame
    \/ WandCalled /\ wandClearMask /\ UNCHANGED wandFrame

WandSpecInit ==
    /\ WandInit
    /\ maxHistorySize = 1
    /\ historyStack = <<>>
    /\ currentIndex = -1
    /\ inflight = <<>>
    /\ scenario = NoScenario
    /\ brush = NewBrush(ClearedOverlay).b
    /\ strokeOpen = FALSE
    /\ polygon = NewPolygon(ClearedOverlay).pg
    /\ host = HostState0
    /\ events = 0
    /\ maskCanvas = Null
    /\ returned = Null
    /\ webLLM = EngineIdle

WandSpec == WandSpecInit /\ [][WandNext]_vars

(* ------------------------------------------------------------------ *)
(* Properties of MagicWandService (specification WandSpec)            *)
(* ------------------------------------------------------------------ *)
\* lo <= v <= hi for a JavaScript number v
InRange(v, lo, hi) == v # NaN /\ lo <= v /\ v <= hi

\* the pixels the overlay ov shows as selected by the wand
Marked(ov) == { p \in Pixels : ov[p] = MarkerAlpha }

\* the last call was performMagicWand with a seed on the canvas and a
\* tolerance in 0..255
FloodFillCase ==
    /\ lastCall.op = "performMagicWand"
    /\ lastCall.x \in 0..(W - 1)
    /\ lastCall.y \in 0..(H - 1)
    /\ InRange(wand.tolerance, 0, 255)

\* the seed pixel of the last performMagicWand
Seed == lastCall.y * W + lastCall.x

\* the pixels marked before the last performMagicWand that it kept
Kept == IF lastCall.isShiftClick THEN Marked(callPre.ov) ELSE {}

\* C14: for an in-bounds seed and a tolerance in 0..255, the pixels
\* performMagicWand newly marks are exactly those reachable from the seed by
\* 4-neighbour steps through pixels whose RGB distance to the seed colour is
\* at most the tolerance; the seed is always among them, so tolerance 0
\* selects a uniform raster entirely and a lone odd seed pixel alone.
C14_FloodFillRegion ==
    FloodFillCase =>
        LET region == Flood(raster, raster[Seed], wand.tolerance, {Seed})
        IN  /\ lastCall.result
            /\ Seed \in Marked(overlay)
            /\ Marked(overlay) = Kept \cup region
            /\ (wand.tolerance = 0 /\ Kept = {}) =>
                  /\ (\A p \in Pixels : raster[p] = raster[Seed]) =>
                        Marked(overlay) = Pixels
                  /\ (\A p \in Pixels \ {Seed} : raster[p] # raster[Seed]) =>
                        Marked(overlay) = {Seed}

\* a flood fill that stopped at a colour edge after more than one pixel
C14_Witness ==
    /\ FloodFillCase
    /\ ~lastCall.isShiftClick
    /\ Cardinality(Marked(overlay)) > 1
    /\ Marked(overlay) # Pixels

\* C15: with tolerance 255 a flood fill from a seed inside the canvas
\* selects all W * H pixels, whatever the colours of the bitmap.
C15_FullToleranceSelectsAll ==
    (FloodFillCase /\ wand.tolerance = 255) => Marked(overlay) = Pixels

\* the pixels a mask canvas selects (isPointSelected)
Selected(mask) == { p \in Pixels : mask[p] > 200 }

\* C16: after a flood fill from a seed inside the canvas the mask selects
\* the previous mask's pixels together with the new region when the call
\* is additive, and exactly the new region when it is not; getMask() is
\* then present.
C16_AdditiveIsUnion ==
    FloodFillCase =>
        LET region == Flood(raster, raster[Seed], wand.tolerance, {Seed})
            before == IF lastCall.isShiftClick
                      THEN Selected(callPre.w.maskData) ELSE {}
        IN  /\ wand.selectionMask # Null
            /\ Selected(wand.maskData) = before \cup region
            /\ \A p \in Pixels : wand.maskData[p] \in {0, 255}

\* an additive flood fill whose region and previous mask both bring pixels
\* the other lacks
C16_Witness ==
    /\ FloodFillCase
    /\ lastCall.isShiftClick
    /\ Selected(callPre.w.maskData) \ Marked(callPre.ov) = {}
    /\ \E p \in Selected(wand.maskData) : p \notin Selected(callPre.w.maskData)
    /\ \E p \in Selected(callPre.w.maskData) :
           p \notin Flood(raster, raster[Seed], wand.tolerance, {Seed})

\* C17: whenever performMagicWand returns false, the mask canvas, the
\* overlay and getMask() are as they were before the call; and the call
\* returns true whenever at least one pixel matched.
C17_FailedFillChangesNothing ==
    [][performMagicWand =>
          /\ ~lastCall'.result => (wand' = wand /\ overlay' = overlay)
          /\ (Marked(overlay') \ Marked(overlay) # {}) => lastCall'.result]_vars

\* C13: setTolerance(t) is accepted exactly when 0 <= t <= 255 and
\* setBrushSize(n) only when 1 <= n <= 50; a rejected call leaves the
\* stored value, the paint layer, the mask and the stroke state unchanged.
C13_RangeChecks ==
    [][/\ setTolerance =>
             /\ lastCall'.result <=> InRange(lastCall'.tolerance, 0, 255)
             /\ lastCall'.result => wand'.tolerance = lastCall'.tolerance
             /\ ~lastCall'.result => (wand' = wand /\ overlay' = overlay)
       /\ setBrushSize =>
             /\ brush' # brush => InRange(brush'.brushSize, 1, 50)
             /\ brush' = [brush EXCEPT !.brushSize = brush'.brushSize]
             /\ overlay' = overlay]_vars

(* ------------------------------------------------------------------ *)
(* Specification PolygonSpec: a PolygonSelectionService on its own    *)
(* ------------------------------------------------------------------ *)
\* positions the driver of PolygonSpec clicks and moves to; the last two
\* lie at distance 10 and 11 of the first
PointInputs == { <<0, 0>>, <<2, 1>>, <<6, 8>>, <<11, 0>> }

\* isPolygonComplete() and getPointCount() as a call finds them
PolygonPre ==
    [isComplete |-> polygon.isComplete, count |-> Len(polygon.points)]

\* the edge alphas a click at pt can meet: only a click that closes the
\* polygon fills it
ClickEdgeAlphas(pt) ==
    IF /\ ~polygon.isComplete
       /\ Len(polygon.points) >= 3
       /\ SqDist(pt, polygon.points[1]) <= SnapRadius * SnapRadius
    THEN EdgeAlphas ELSE {0}

\* addPoint(x, y); e is the alpha anti-aliasing gives the polygon's edge
addPoint ==
    \E pt \in PointInputs : \E e \in ClickEdgeAlphas(pt) :
        \E res \in {AddPoint(polygon, overlay, pt[1], pt[2], e)} :
            /\ Len(res.pg.points) <= MaxPoints
            /\ polygon' = res.pg
            /\ overlay' = res.ov
            /\ callPre' = PolygonPre
            /\ lastCall' = [op |-> "addPoint", result |-> res.added,
                            x |-> pt[1], y |-> pt[2]]

\* updateMousePosition(x, y)
updateMousePosition ==
    \E pt \in PointInputs :
        \E res \in {UpdateMousePosition(polygon, overlay, pt[1], pt[2])} :
            /\ polygon' = res.pg
            /\ overlay' = res.ov
            /\ callPre' = PolygonPre
            /\ lastCall' = [op |-> "updateMousePosition", result |-> FALSE,
                            x |-> pt[1], y |-> pt[2]]

\* closePolygon(): false with fewer than three vertices
closePolygon ==
    \E e \in EdgeAlphas :
        \E res \in {ClosePolygon(polygon, overlay, e)} :
            /\ polygon' = res.pg
            /\ overlay' = res.ov
            /\ callPre' = PolygonPre
            /\ lastCall' = [op |-> "closePolygon",
                            result |-> Len(polygon.points) >= 3]

\* PolygonSelectionService.clearMask()
polygonClearMask ==
    /\ polygon' = PolygonClearMask(polygon, overlay).pg
    /\ overlay' = PolygonClearMask(polygon, overlay).ov
    /\ callPre' = PolygonPre
    /\ lastCall' = [op |-> "clearMask", result |-> FALSE]

polygonFrame ==
    <<raster, maxHistorySize, historyStack, currentIndex, inflight, scenario,
      brush, strokeOpen, wand, host, events, maskVars, webLLM>>

PolygonNext ==
    \/ addPoint /\ UNCHANGED polygonFrame
    \/ updateMousePosition /\ UNCHANGED polygonFrame
    \/ closePolygon /\ UNCHANGED polygonFrame
    \/ polygonClearMask /\ UNCHANGED polygonFrame

PolygonSpecInit ==
    /\ raster = WandRaster(0)
    /\ overlay = NewPolygon(ClearedOverlay).ov
    /\ polygon = NewPolygon(ClearedOverlay).pg
    /\ lastCall = [op |-> "none", result |-> FALSE]
    /\ callPre = [op |-> "none", result |-> FALSE]
    /\ maxHistorySize = 1
    /\ historyStack = <<>>
    /\ currentIndex = -1
    /\ inflight = <<>>
    /\ scenario = NoScenario
    /\ brush = NewBrush(ClearedOverlay).b
    /\ strokeOpen = FALSE
    /\ wand = NewWand(ClearedOverlay).w
    /\ host = HostState0
    /\ events = 0
    /\ maskCanvas = Null
    /\ returned = Null
    /\ webLLM = EngineIdle

PolygonSpec == PolygonSpecInit /\ [][PolygonNext]_vars

(* ------------------------------------------------------------------ *)
(* Properties of PolygonSelectionService                              *)
(* ------------------------------------------------------------------ *)
\* C18: once the polygon is complete, addPoint and updateMousePosition
\* change nothing and addPoint returns false, until clearMask();
\* updateMousePosition also changes nothing while there is no vertex.
C18_CompleteIsFrozen ==
    [][/\ (polygon.isComplete /\ lastCall'.op = "addPoint") =>
             /\ polygon' = polygon
             /\ overlay' = overlay
             /\ ~lastCall'.result
       /\ ((polygon.isComplete \/ Len(polygon.points) = 0)
              /\ lastCall'.op = "updateMousePosition") =>
             /\ polygon' = polygon
             /\ overlay' = overlay]_vars

\* C18: a polygon closed by addPoint has refused a click and a move
C18_Witness ==
    /\ polygon.isComplete
    /\ callPre.isComplete
    /\ lastCall.op \in {"addPoint", "updateMousePosition"}

\* (x, y) lies within the snap radius of the first vertex of pg
NearFirst(pg, x, y) ==
    (x - pg.points[1][1]) * (x - pg.points[1][1])
       + (y - pg.points[1][2]) * (y - pg.points[1][2]) <= 10 * 10

\* C19: addPoint(x, y) on an open polygon closes it exactly when it has at
\* least three vertices and (x, y) is within 10 pixels, inclusive, of the
\* first one, and then adds no vertex; otherwise it appends exactly (x, y)
\* and the polygon stays open. A complete polygon has at least 3 vertices.
C19_CloseOnFirstVertex ==
    [][/\ (~polygon.isComplete /\ lastCall'.op = "addPoint") =>
             LET x == lastCall'.x
                 y == lastCall'.y
             IN  /\ lastCall'.result
                 /\ polygon'.isComplete <=>
                       (Len(polygon.points) >= 3 /\ NearFirst(polygon, x, y))
                 /\ polygon'.isComplete => polygon'.points = polygon.points
                 /\ ~polygon'.isComplete =>
                       polygon'.points = Append(polygon.points, <<x, y>>)
       /\ polygon'.isComplete => Len(polygon'.points) >= 3]_vars

\* C19: a click at distance exactly 10 of the first vertex closed a
\* polygon of at least three vertices
C19_Witness ==
    /\ lastCall.op = "addPoint"
    /\ ~callPre.isComplete
    /\ polygon.isComplete
    /\ <<lastCall.x, lastCall.y>> = <<6, 8>>
    /\ polygon.points[1] = <<0, 0>>

(* ------------------------------------------------------------------ *)
(* Specification HostSpec: the CanvasEditor component                 *)
(* ------------------------------------------------------------------ *)
\* one more event of the host's event loop has run to completion
Handled == events < MaxEvents /\ events' = events + 1 /\ UNCHANGED <<maskVars, webLLM>>

HostNext ==
    \/ Handled /\ handleMouseDown
    \/ Handled /\ handleMouseMove
    \/ Handled /\ handleMouseUp
    \/ Handled /\ handleClearSelection
    \/ Handled /\ handleDeleteSelection
    \/ Handled /\ handleInvertSelection
    \/ Handled /\ handleSelectionModeChange
    \/ Handled /\ handleToolChange
    \/ Handled /\ handleBrushSizeChange
    \/ Handled /\ handleMagicWandToleranceChange
    \/ Handled /\ handleUndo
    \/ Handled /\ handleRedo
    \/ Handled /\ HostRestoreLoaded
    \/ Handled /\ HostRestoreFailed
    \/ Handled /\ executeNaturalCommand
    \/ Handled /\ applyFilter
    \/ Handled /\ handleRemoveBackground

HostSpec == HostInit /\ [][HostNext]_vars

(* ------------------------------------------------------------------ *)
(* Properties of the CanvasEditor host                                *)
(* ------------------------------------------------------------------ *)
\* a step of one of the collaborators that share the host's canvas
CollaboratorStep ==
    executeNaturalCommand \/ applyFilter \/ handleRemoveBackground

\* a step that completes or changes a selection
SelectionStep ==
    \/ handleMouseDown
    \/ handleMouseMove
    \/ handleMouseUp
    \/ handleInvertSelection
    \/ handleClearSelection

\* C7: when a collaborator (filter, background removal, draw command) has
\* changed the host's raster, the host's history has received a saveState
\* for it: the current entry is the newest one and encodes the new raster,
\* so the change can be undone.
C7_CollaboratorMutationsAreSaved ==
    [][(CollaboratorStep /\ raster' # raster) =>
          /\ Len(historyStack') > 0
          /\ currentIndex' = Len(historyStack') - 1
          /\ At(historyStack', currentIndex').dataUrl = ToDataURL(raster')]_vars

\* C8: completing or changing a selection (brush stroke end, flood fill,
\* polygon close, invert, clear) leaves the raster alone and adds no
\* history entry.
C8_SelectionChangesAddNoHistory ==
    [][SelectionStep =>
          /\ raster' = raster
          /\ historyStack' = historyStack
          /\ currentIndex' = currentIndex]_vars

\* C9: a brush-size change or a flood-fill tolerance change leaves the
\* history entries, currentIndex and the raster unchanged.
C9_SizeAndToleranceKeepHistory ==
    [][(handleBrushSizeChange \/ handleMagicWandToleranceChange) =>
          /\ historyStack' = historyStack
          /\ currentIndex' = currentIndex
          /\ raster' = raster]_vars

\* a click of the magic wand tool at (x, y) handled by handleMouseDown
WandClick(x, y, shiftKey) ==
    /\ host.selectionMode
    /\ host.currentTool = "magicWand"
    /\ wand' = PerformMagicWand(wand, overlay, raster, x, y, shiftKey).w
    /\ overlay' = PerformMagicWand(wand, overlay, raster, x, y, shiftKey).ov
    /\ UNCHANGED <<brush, strokeOpen, polygon, raster>>

\* the brush has painted on the overlay or made a mask since it was cleared
BrushInvolved ==
    strokeOpen \/ brush.isDrawing \/ brush.lastX # NoCoord
       \/ brush.selectionMask # Null

\* the pixels some selector has selected: the masks of the wand and of the
\* polygon, and any pixel once the brush is involved
SelectedBySelectors ==
    IF BrushInvolved THEN Pixels
    ELSE Selected(wand.maskData) \cup Selected(polygon.maskData)

\* C20: with the three selectors on the host's overlay, a flood-fill mask
\* selects no pixel only because of the polygon's decorations (outline,
\* vertex markers, preview line, close hint): each of its pixels belongs
\* to the region of the click or was selected by a selector before.
C20_DecorationsStayOutOfMasks ==
    [][\A x \in HostColumns, y \in HostRows, shiftKey \in BOOLEAN :
          WandClick(x, y, shiftKey) =>
             Selected(wand'.maskData) \subseteq
                FloodFill(raster, x, y, TargetColor(raster, x, y),
                          wand.tolerance)
                   \cup SelectedBySelectors]_vars

\* the overlay pixels that carry paint a mask would pick up
Painted(ov) == { p \in Pixels : ov[p] > 10 }

\* a pointer event handled while tool is the current tool
ToolStep(tool) ==
    /\ host.selectionMode
    /\ host.currentTool = tool
    /\ (handleMouseDown \/ handleMouseMove \/ handleMouseUp)

\* C21: an operation on one selector leaves the accumulated state of the
\* other selectors unchanged: the brush and its paint, the wand and the
\* overlay marks its additive union starts from, the polygon's vertices and
\* mask.
C21_SelectorsKeepTheirState ==
    [][/\ (ToolStep("magicWand") \/ ToolStep("polygon")) =>
             /\ brush' = brush
             /\ (Selected(brush.maskData) \cap Painted(overlay))
                   \subseteq Painted(overlay')
       /\ (ToolStep("brush") \/ ToolStep("polygon")) =>
             /\ wand' = wand
             /\ (Selected(wand.maskData) \cap Painted(overlay))
                   \subseteq Painted(overlay')
       /\ (ToolStep("brush") \/ ToolStep("magicWand")) =>
             polygon' = polygon]_vars

\* a click of the magic wand tool that selected a region
WandSelected ==
    \E x \in HostColumns, y \in HostRows, shiftKey \in BOOLEAN :
        /\ WandClick(x, y, shiftKey)
        /\ PerformMagicWand(wand, overlay, raster, x, y, shiftKey).success

\* C22: right after the user has made a selection with one selector (a
\* flood fill that selected, a brush stroke that ended, a polygon that
\* closed), the mask the host picks for delete, invert, export and copy is
\* that selection's mask, whatever masks the other selectors hold.
C22_CurrentMaskIsTheLatest ==
    [][/\ WandSelected => PickedMask' = wand'.maskData
       /\ (ToolStep("brush") /\ handleMouseUp) =>
             PickedMask' = brush'.maskData
       /\ (ToolStep("polygon") /\ ~polygon.isComplete /\ polygon'.isComplete)
             => PickedMask' = polygon'.maskData]_vars

(* ------------------------------------------------------------------ *)
(* MaskService and ExportService on a mask canvas handed in by a       *)
(* caller (specification MaskSpec)                                     *)
(* ------------------------------------------------------------------ *)

\* how far the width and height of the mask canvases the callers hand in
\* lie from the width and height of the main canvas
MaxDiff == 2

\* number of mask patterns the callers hand in (beside no mask at all)
MaxMask == 6

\* number of MaskService / ExportService calls of one run
MaxMaskCalls == 3

\* alpha values a mask pixel takes: around the thresholds 128 and 200
AlphaLevels == <<255, 0, 128, 129, 200, 201, 127, 10>>

\* alpha of pixel (x, y) of mask pattern k on a w x h mask canvas
PatternAlpha(k, x, y, w, h) ==
    IF k = 0 THEN 0
    ELSE IF k = 1 THEN 255
    ELSE IF k = 2 THEN (IF (x + y) % 2 = 0 THEN 255 ELSE 0)
    ELSE IF k = 3 THEN AlphaLevels[((y * w + x) % 8) + 1]
    ELSE IF k = 4 THEN (IF x = w - 1 \/ y = h - 1 THEN 255 ELSE 0)
    ELSE IF k = 5 THEN (IF x = 0 /\ y = 0 THEN 200
                        ELSE IF x = 1 /\ y = h - 1 THEN 255 ELSE 0)
    ELSE IF k = 6 THEN (IF x = 0 THEN 128 ELSE IF x = 1 THEN 127 ELSE 0)
    ELSE AlphaLevels[(((y * w + x) * k) % 8) + 1]

\* a mask canvas: its own width and height, and the alpha of its pixels
\* in row-major order
MaskPattern(k, w, h) ==
    [width |-> w, height |-> h,
     data |-> [i \in 0..(w * h - 1) |-> PatternAlpha(k, i % w, i \div w, w, h)]]

\* no mask canvas: the null or undefined a caller passes for one
NoMask == [absent |-> TRUE]

\* the sizes of the mask canvases: off in one dimension, or by the same
\* amount in both
MaskSizes ==
    LET Diffs == (0 - MaxDiff)..MaxDiff
    IN  { <<W + d[1], H + d[2]>> :
            d \in { e \in Diffs \X Diffs :
                      /\ W + e[1] >= 0
                      /\ H + e[2] >= 0
                      /\ (e[1] = 0 \/ e[2] = 0 \/ e[1] = e[2]) } }

MaskCanvases ==
    { MaskPattern(k, size[1], size[2]) : k \in 0..MaxMask, size \in MaskSizes }

\* the partially transparent images MaskSpec starts from
MaskRaster(k) ==
    [p \in Pixels |->
        IF (p + k) % 4 = 3 THEN Transparent
        ELSE [r |-> Colour(p + k + 1)[1], g |-> Colour(p + k + 1)[2],
              b |-> Colour(p + k + 1)[3],
              a |-> IF (p + k) % 4 = 0 THEN 255
                    ELSE IF (p + k) % 4 = 1 THEN 100 ELSE 200]]

\* maskContext.getImageData(0, 0, canvasWidth, canvasHeight): the alpha of
\* the mask over the grid of the main canvas; what lies outside the mask
\* canvas reads as transparent black, what the mask canvas has beyond the
\* grid is not read
MaskRead(m) ==
    [p \in Pixels |->
        IF PX(p) < m.width /\ PY(p) < m.height
        THEN m.data[PY(p) * m.width + PX(p)] ELSE 0]

Abs(n) == IF n < 0 THEN 0 - n ELSE n

\* the mask checks without the tolerance: any difference in width or height
\* is refused
MaskErrorExact(m) ==
    IF m = NoMask THEN "Mask canvas is required"
    ELSE IF m.width # W \/ m.height # H
         THEN "Invalid mask canvas dimensions"
         ELSE Null

\* the checks deleteSelectedArea, invertSelection and exportSelection begin
\* with: the message of the error thrown, Null when the mask is accepted
MaskError(m) ==
    IF m = NoMask THEN "Mask canvas is required"
    ELSE IF Abs(m.width - W) > 1 \/ Abs(m.height - H) > 1
         THEN "Invalid mask canvas dimensions"
         ELSE Null

FillColors == { "transparent", "#ff0000" }

\* parseColor(color): the pixel a 1x1 canvas shows once filled with the
\* colour; a string that is no colour leaves fillStyle at its default black
ParseColor(color) ==
    IF color = "transparent" THEN [r |-> 0, g |-> 0, b |-> 0]
    ELSE IF color = "#ff0000" THEN [r |-> 255, g |-> 0, b |-> 0]
    ELSE [r |-> 0, g |-> 0, b |-> 0]

\* deleteSelectedArea with the threshold of applyMaskToImageData: alpha 128
\* counts as selected
DeletePixelsInclusive(img, alpha, fillColor) ==
    [p \in Pixels |->
        IF alpha[p] >= 128
        THEN IF fillColor = "transparent"
             THEN PutPixel([img[p] EXCEPT !.a = 0])
             ELSE [r |-> ParseColor(fillColor).r, g |-> ParseColor(fillColor).g,
                   b |-> ParseColor(fillColor).b, a |-> 255]
        ELSE img[p]]

\* the pixel loop of deleteSelectedArea followed by putImageData
DeletePixels(img, alpha, fillColor) ==
    [p \in Pixels |->
        IF alpha[p] > 128
        THEN IF fillColor = "transparent"
             THEN PutPixel([img[p] EXCEPT !.a = 0])
             ELSE [r |-> ParseColor(fillColor).r, g |-> ParseColor(fillColor).g,
                   b |-> ParseColor(fillColor).b, a |-> 255]
        ELSE img[p]]

\* the canvas invertSelection returns: of the size of the main canvas
InvertedCanvas(m) ==
    [width |-> W, height |-> H, data |-> InvertSelection(MaskRead(m))]

\* the masks of a run of inversions, each applied to what the one before
\* returned: the mask the run began with, then every result
InversionChain(chain, m, inverted) ==
    IF chain # <<>> /\ chain[Len(chain)] = m
    THEN Append(chain, inverted) ELSE <<m, inverted>>

\* the format strings the callers pass
Formats == { "png", "PNG", "jpeg", "JPEG", "gif" }

\* format.toLowerCase()
ToLowerCase(format) ==
    IF format = "PNG" THEN "png" ELSE IF format = "JPEG" THEN "jpeg" ELSE format

\* isValidFormat(format)
IsValidFormat(format) == ToLowerCase(format) \in { "jpeg", "png" }

\* getMimeType(format): `image/${formatLower}`
GetMimeType(format) ==
    IF ToLowerCase(format) = "jpeg" THEN "image/jpeg"
    ELSE IF ToLowerCase(format) = "png" THEN "image/png"
    ELSE "image/gif"

\* a pixel drawn onto opaque black: what an encoding without alpha keeps
OnBlack(px) ==
    [r |-> (px.r * px.a) \div 255, g |-> (px.g * px.a) \div 255,
     b |-> (px.b * px.a) \div 255, a |-> 255]

\* canvas.toDataURL(type, quality): a type the browser does not encode
\* gives a PNG, which keeps every pixel; JPEG has no alpha
EncodeCanvas(cv, type) ==
    IF type = "image/jpeg"
    THEN [mime |-> "image/jpeg", width |-> cv.width, height |-> cv.height,
          px |-> [i \in DOMAIN cv.px |-> OnBlack(cv.px[i])]]
    ELSE [mime |-> "image/png", width |-> cv.width, height |-> cv.height,
          px |-> cv.px]

\* one step of the loop of applyMaskToImageData: a pixel whose mask alpha
\* is below 128 gets alpha 0
MaskedPixel(px, alpha) == IF alpha < 128 THEN [px EXCEPT !.a = 0] ELSE px

\* applyMaskToImageData(imageData, maskImageData)
ApplyMaskToImageData(sourceData, maskData) ==
    [i \in DOMAIN sourceData |-> MaskedPixel(sourceData[i], maskData[i])]

\* putImageData of a whole buffer
PutImageData(data) == [i \in DOMAIN data |-> PutPixel(data[i])]

\* createSelectionCanvas(maskCanvas): a copy of the main canvas with the
\* pixels the mask does not select made transparent
CreateSelectionCanvas(img, m) ==
    PutImageData(ApplyMaskToImageData(img, MaskRead(m)))

SetMin(S) == CHOOSE n \in S : \A k \in S : n <= k

SetMax(S) == CHOOSE n \in S : \A k \in S : n >= k

\* the null getSelectionBounds returns
NoBounds == [absent |-> TRUE]

\* getSelectionBounds with a threshold of 100 in the place of 200
GetSelectionBoundsLow(alpha) ==
    LET sel == { p \in Pixels : alpha[p] > 100 }
        minX == SetMin({ PX(p) : p \in sel } \cup {W})
        minY == SetMin({ PY(p) : p \in sel } \cup {H})
        maxX == SetMax({ PX(p) : p \in sel } \cup {0})
        maxY == SetMax({ PY(p) : p \in sel } \cup {0})
    IN  IF minX > maxX THEN NoBounds
        ELSE [minX |-> minX, minY |-> minY, maxX |-> maxX, maxY |-> maxY]

\* getSelectionBounds with the minimum of the rows started at 0 as the
\* maxima are
GetSelectionBoundsFromZero(alpha) ==
    LET sel == { p \in Pixels : alpha[p] > 200 }
        minX == SetMin({ PX(p) : p \in sel } \cup {W})
        minY == SetMin({ PY(p) : p \in sel } \cup {0})
        maxX == SetMax({ PX(p) : p \in sel } \cup {0})
        maxY == SetMax({ PY(p) : p \in sel } \cup {0})
    IN  IF minX > maxX THEN NoBounds
        ELSE [minX |-> minX, minY |-> minY, maxX |-> maxX, maxY |-> maxY]

\* the loop and the null test of getSelectionBounds on the alpha read from
\* a mask: minX and minY start at the width and height, maxX and maxY at 0
GetSelectionBounds(alpha) ==
    LET sel == { p \in Pixels : alpha[p] > 200 }
        minX == SetMin({ PX(p) : p \in sel } \cup {W})
        minY == SetMin({ PY(p) : p \in sel } \cup {H})
        maxX == SetMax({ PX(p) : p \in sel } \cup {0})
        maxY == SetMax({ PY(p) : p \in sel } \cup {0})
    IN  IF minX > maxX THEN NoBounds
        ELSE [minX |-> minX, minY |-> minY, maxX |-> maxX, maxY |-> maxY]

\* the pixel of the main canvas that pixel i of the box b is, as
\* getImageData(b.minX, b.minY, width, height) lays the box out
BoxPixel(b, i) ==
    (b.minY + (i \div (b.maxX - b.minX + 1))) * W
       + b.minX + (i % (b.maxX - b.minX + 1))

\* the cropped canvas of exportSelection: the box of the main canvas,
\* masked by the alpha of the same box of the selection canvas
CroppedCanvas(img, selectionCanvas, b) ==
    [width |-> b.maxX - b.minX + 1, height |-> b.maxY - b.minY + 1,
     px |-> [i \in 0..((b.maxX - b.minX + 1) * (b.maxY - b.minY + 1) - 1) |->
               PutPixel(MaskedPixel(img[BoxPixel(b, i)],
                                    selectionCanvas[BoxPixel(b, i)].a))]]

\* the mask checks, createSelectionCanvas and getSelectionBounds of
\* exportSelection: the error thrown, or the selection canvas and the box
SelectionToExport(img, m) ==
    IF MaskError(m) # Null
    THEN [error |-> MaskError(m), canvas |-> Null, bounds |-> NoBounds]
    ELSE [error |-> Null, canvas |-> CreateSelectionCanvas(img, m),
          bounds |-> GetSelectionBounds(MaskRead(m))]

\* exportSelection(maskCanvas, format) from there on: the error thrown or
\* the data URL
ExportSelection(img, sel, format) ==
    IF sel.error # Null THEN [error |-> sel.error, url |-> Null]
    ELSE IF sel.bounds = NoBounds
         THEN [error |-> "Failed to export selection: No selection found in mask",
               url |-> Null]
         ELSE [error |-> Null,
               url |-> EncodeCanvas(CroppedCanvas(img, sel.canvas, sel.bounds),
                                    GetMimeType(format))]

\* exportCanvas(format): the error thrown or the data URL
ExportCanvas(img, format) ==
    IF ~IsValidFormat(format)
    THEN [error |-> "Unsupported export format", url |-> Null]
    ELSE [error |-> Null,
          url |-> EncodeCanvas([width |-> W, height |-> H, px |-> img],
                               GetMimeType(format))]

\* generateFilename and downloadImage of the download wrappers: the file
\* the browser saves, none when the export threw or for a plain export
Download(res, download, baseName, format) ==
    IF download /\ res.error = Null
    THEN [kind |-> "file", name |-> <<baseName, ToLowerCase(format)>>,
          href |-> res.url]
    ELSE [kind |-> "none"]

\* a call that threw, or no call yet, returned nothing
NoValue == [kind |-> "none", value |-> Null]

\* one more call on the MaskService or the ExportService has returned
MaskCalled == events < MaxMaskCalls /\ events' = events + 1

\* deleteSelectedArea(maskCanvas, fillColor)
deleteSelectedArea ==
    \E fillColor \in FillColors :
        /\ callPre' = [raster |-> raster, maskCanvas |-> maskCanvas]
        /\ lastCall' = [op |-> "deleteSelectedArea", error |-> MaskError(maskCanvas),
                        arg |-> fillColor]
        /\ raster' = IF MaskError(maskCanvas) # Null THEN raster
                     ELSE DeletePixels(raster, MaskRead(maskCanvas), fillColor)
        /\ returned' = IF MaskError(maskCanvas) # Null THEN NoValue
                       ELSE [kind |-> "boolean", value |-> TRUE]
        /\ UNCHANGED <<maskCanvas, scenario>>

\* invertSelection(maskCanvas)
invertSelection ==
    /\ callPre' = [raster |-> raster, maskCanvas |-> maskCanvas]
    /\ lastCall' = [op |-> "invertSelection", error |-> MaskError(maskCanvas),
                    arg |-> Null]
    /\ IF MaskError(maskCanvas) # Null
       THEN returned' = NoValue /\ UNCHANGED scenario
       ELSE /\ returned' = [kind |-> "canvas",
                            value |-> InvertedCanvas(maskCanvas)]
            /\ scenario' = [scenario EXCEPT
                              !.a = InversionChain(@, maskCanvas,
                                                   InvertedCanvas(maskCanvas))]
    /\ UNCHANGED <<raster, maskCanvas>>

\* the caller hands the mask invertSelection returned to the next call
useInverted ==
    /\ returned.kind = "canvas"
    /\ maskCanvas' = returned.value
    /\ UNCHANGED <<raster, returned, lastCall, callPre, scenario, events>>

\* exportSelection(maskCanvas, format) and, with download, the wrapper
\* exportAndDownloadSelection(maskCanvas, format)
exportSelection ==
    \E sel \in { SelectionToExport(raster, maskCanvas) } :
    \E format \in Formats, download \in BOOLEAN :
      \E res \in { ExportSelection(raster, sel, format) } :
        /\ callPre' = [raster |-> raster, maskCanvas |-> maskCanvas]
        /\ lastCall' = [op |-> "exportSelection", error |-> res.error,
                        arg |-> format,
                        file |-> Download(res, download, "selection-export",
                                          format)]
        /\ returned' = IF res.error # Null \/ download THEN NoValue
                       ELSE [kind |-> "dataURL", value |-> res.url]
        /\ UNCHANGED <<raster, maskCanvas, scenario>>

\* exportCanvas(format) and, with download, exportAndDownloadCanvas(format)
exportCanvas ==
    \E format \in Formats, download \in BOOLEAN :
      \E res \in { ExportCanvas(raster, format) } :
        /\ callPre' = [raster |-> raster, maskCanvas |-> maskCanvas]
        /\ lastCall' = [op |-> "exportCanvas", error |-> res.error,
                        arg |-> format,
                        file |-> Download(res, download, "canvas-export",
                                          format)]
        /\ returned' = IF res.error # Null \/ download THEN NoValue
                       ELSE [kind |-> "dataURL", value |-> res.url]
        /\ UNCHANGED <<raster, maskCanvas, scenario>>

\* getSelectionBounds() of the selector that holds the mask canvas: null
\* without a selection mask
getSelectionBounds ==
    /\ callPre' = [raster |-> raster, maskCanvas |-> maskCanvas]
    /\ lastCall' = [op |-> "getSelectionBounds", error |-> Null, arg |-> Null]
    /\ returned' = [kind |-> "bounds",
                    value |-> IF maskCanvas = NoMask THEN NoBounds
                              ELSE GetSelectionBounds(MaskRead(maskCanvas))]
    /\ UNCHANGED <<raster, maskCanvas, scenario>>

maskFrame ==
    <<maxHistorySize, historyStack, currentIndex, inflight, overlay, brush,
      strokeOpen, wand, polygon, host, webLLM>>

MaskNext ==
    \/ MaskCalled /\ deleteSelectedArea /\ UNCHANGED maskFrame
    \/ MaskCalled /\ invertSelection /\ UNCHANGED maskFrame
    \/ MaskCalled /\ exportSelection /\ UNCHANGED maskFrame
    \/ MaskCalled /\ exportCanvas /\ UNCHANGED maskFrame
    \/ MaskCalled /\ getSelectionBounds /\ UNCHANGED maskFrame
    \/ useInverted /\ UNCHANGED maskFrame

MaskSpecInit ==
    /\ raster \in { MaskRaster(0), MaskRaster(1) }
    /\ maskCanvas \in MaskCanvases \cup {NoMask}
    /\ returned = NoValue
    /\ webLLM = EngineIdle
    /\ lastCall = NoCall
    /\ callPre = NoCall
    /\ scenario = NoScenario
    /\ events = 0
    /\ maxHistorySize = 1
    /\ historyStack = <<>>
    /\ currentIndex = -1
    /\ inflight = <<>>
    /\ overlay = ClearedOverlay
    /\ brush = NewBrush(ClearedOverlay).b
    /\ strokeOpen = FALSE
    /\ wand = NewWand(ClearedOverlay).w
    /\ polygon = NewPolygon(ClearedOverlay).pg
    /\ host = HostState0

MaskSpec == MaskSpecInit /\ [][MaskNext]_vars

\* the pixels of the grid of the main canvas a mask selects for MaskService
MaskSelects(m) == { p \in Pixels : MaskRead(m)[p] > 128 }

\* a mask whose every alpha is 0 or 255
IsBinary(m) == \A i \in DOMAIN m.data : m.data[i] \in {0, 255}

\* the pixels of its own canvas a mask selects for MaskService
OwnSelected(m) ==
    { <<x, y>> \in (0..(m.width - 1)) \X (0..(m.height - 1)) :
        m.data[y * m.width + x] > 128 }

\* alpha of pixel (x, y) as a getImageData on the mask canvas reads it
AlphaAt(m, x, y) ==
    IF x < m.width /\ y < m.height THEN m.data[y * m.width + x] ELSE 0

\* C23 as stated: for every mask M invertSelection accepts, the inversion of
\* its inversion selects exactly the pixels M selects, and has the alpha of
\* M at every pixel of M when M is binary; a third inversion gives the
\* first again.
C23_DoubleInversionOfAnyAcceptedMask ==
    /\ Len(scenario.a) >= 3 =>
          /\ OwnSelected(scenario.a[3]) = OwnSelected(scenario.a[1])
          /\ IsBinary(scenario.a[1]) =>
                \A x \in 0..(scenario.a[1].width - 1),
                   y \in 0..(scenario.a[1].height - 1) :
                     AlphaAt(scenario.a[3], x, y) = AlphaAt(scenario.a[1], x, y)
    /\ Len(scenario.a) >= 4 => scenario.a[4] = scenario.a[2]

\* C23: for every mask M invertSelection accepts, the inversion of its
\* inversion selects exactly the pixels of the grid of the main canvas that
\* M selects (alpha > 128), and equals M in alpha at every pixel of that
\* grid when M is binary; a third inversion gives the first again.
C23_DoubleInversionOnTheGrid ==
    /\ Len(scenario.a) >= 3 =>
          /\ MaskSelects(scenario.a[3]) = MaskSelects(scenario.a[1])
          /\ IsBinary(scenario.a[1]) =>
                MaskRead(scenario.a[3]) = MaskRead(scenario.a[1])
    /\ Len(scenario.a) >= 4 => scenario.a[4] = scenario.a[2]

\* three inversions in a row of a binary mask that selects some pixels of
\* the grid and not others
C23_Witness ==
    /\ Len(scenario.a) = 4
    /\ IsBinary(scenario.a[1])
    /\ MaskSelects(scenario.a[1]) # {}
    /\ MaskSelects(scenario.a[1]) # Pixels

\* the step is a call of op that returned without an error
Returns(op) ==
    /\ events' = events + 1
    /\ lastCall'.op = op
    /\ lastCall'.error = Null

\* C24: invertSelection returns a new mask in which a pixel has alpha 255
\* iff the alpha the input mask has there is <= 128, and alpha 0 otherwise;
\* the input mask and the raster are unchanged.
C24_InvertSelectionEffect ==
    [][Returns("invertSelection") =>
          /\ returned'.kind = "canvas"
          /\ \A p \in Pixels :
                returned'.value.data[p] =
                   IF MaskRead(maskCanvas)[p] <= 128 THEN 255 ELSE 0
          /\ maskCanvas' = maskCanvas
          /\ raster' = raster]_vars

\* an inversion of a mask with alpha 128 at one pixel and 129 at another
C24_Witness ==
    /\ lastCall.op = "invertSelection"
    /\ lastCall.error = Null
    /\ returned.kind = "canvas"
    /\ \E p, q \in Pixels :
          /\ MaskRead(callPre.maskCanvas)[p] = 128
          /\ returned.value.data[p] = 255
          /\ MaskRead(callPre.maskCanvas)[q] = 129
          /\ returned.value.data[q] = 0

\* the colour channels of two pixels are the same
SameRGB(px, qx) == px.r = qx.r /\ px.g = qx.g /\ px.b = qx.b

\* what deleteSelectedArea does to the pixels the mask does not select, to
\* the pixels it fills with a solid colour, and to the mask
DeleteFrame ==
    /\ \A p \in Pixels :
          /\ MaskRead(maskCanvas)[p] <= 128 => raster'[p] = raster[p]
          /\ (MaskRead(maskCanvas)[p] > 128 /\ lastCall'.arg # "transparent") =>
                /\ SameRGB(raster'[p], ParseColor(lastCall'.arg))
                /\ raster'[p].a = 255
    /\ maskCanvas' = maskCanvas

MaskCallStep ==
    /\ events' = events + 1
    /\ lastCall'.op \in { "deleteSelectedArea", "invertSelection",
                          "exportSelection" }

\* the mask is absent, or its width or height is more than 1 away from
\* the raster's
Mismatch(m) ==
    \/ m = NoMask
    \/ Abs(m.width - W) > 1
    \/ Abs(m.height - H) > 1

\* C26 as stated: deleteSelectedArea, invertSelection and exportSelection
\* raise an error, and leave the raster and the mask unchanged, exactly
\* when the mask is absent or its width or height differs from the
\* raster's by more than 1.
C26_ErrorExactlyOnMismatch ==
    [][MaskCallStep =>
          /\ (lastCall'.error # Null) <=> Mismatch(maskCanvas)
          /\ Mismatch(maskCanvas) =>
                /\ raster' = raster
                /\ maskCanvas' = maskCanvas]_vars

\* C26: deleteSelectedArea, invertSelection and exportSelection refuse the
\* mask with a mask error, and leave the raster and the mask unchanged and
\* return nothing, exactly when the mask is absent or its width or height
\* differs from the raster's by more than 1; a mask at most 1 off in each
\* dimension passes the check (exportSelection can still raise its error
\* of an empty selection).
C26_MismatchIsRefused ==
    [][MaskCallStep =>
          /\ (lastCall'.error \in { "Mask canvas is required",
                                    "Invalid mask canvas dimensions" })
                <=> Mismatch(maskCanvas)
          /\ Mismatch(maskCanvas) =>
                /\ raster' = raster
                /\ maskCanvas' = maskCanvas
                /\ returned' = NoValue
                /\ lastCall'.op = "exportSelection" =>
                      lastCall'.file.kind = "none"]_vars

\* a mask one pixel wider and one pixel taller than the raster was exported
\* without an error
C26_Witness ==
    /\ lastCall.op = "exportSelection"
    /\ lastCall.error = Null
    /\ callPre.maskCanvas.width = W + 1
    /\ callPre.maskCanvas.height = H + 1

\* C27: an export entry point (exportCanvas, exportSelection, and the
\* download wrapper of each) called with a format that is neither png nor
\* jpeg in any case raises an error and produces no output: no data URL is
\* returned and no file is downloaded.
C27_OtherFormatsAreRefused ==
    (/\ lastCall.op \in { "exportCanvas", "exportSelection" }
     /\ ~IsValidFormat(lastCall.arg)) =>
        /\ lastCall.error # Null
        /\ returned = NoValue
        /\ lastCall.file.kind = "none"

\* the pixels of the grid of the main canvas that count as selected for
\* bounds and export: alpha above 200; none without a mask
BoundsSelected(m) ==
    IF m = NoMask THEN {} ELSE { p \in Pixels : MaskRead(m)[p] > 200 }

\* C28: exportSelection raises an error and returns no encoded image, and
\* its download wrapper saves no file, whenever the mask is absent or has
\* no selected pixel; the raster is unchanged.
C28_EmptySelectionIsRefused ==
    (/\ lastCall.op = "exportSelection"
     /\ BoundsSelected(callPre.maskCanvas) = {}) =>
        /\ lastCall.error # Null
        /\ returned = NoValue
        /\ lastCall.file.kind = "none"
        /\ raster = callPre.raster

\* an export refused for a mask of accepted size whose strongest pixel has
\* alpha 200
C28_Witness ==
    /\ lastCall.op = "exportSelection"
    /\ lastCall.error = "Failed to export selection: No selection found in mask"
    /\ \E i \in DOMAIN callPre.maskCanvas.data :
          callPre.maskCanvas.data[i] = 200

\* the data URL the last export produced, returned or saved
Exported ==
    IF returned.kind = "dataURL" THEN returned.value ELSE lastCall.file.href

\* the last call is an exportSelection that produced a PNG
ExportedPNG ==
    /\ lastCall.op = "exportSelection"
    /\ lastCall.error = Null
    /\ Exported.mime = "image/png"

\* C29: for a non-empty mask, the output of exportSelection has the width
\* maxX-minX+1 and the height maxY-minY+1 of the bounding box of the mask,
\* and each of its pixels equals the raster pixel at the corresponding
\* position in all four channels when the mask alpha there is >= 128, and
\* is fully transparent when the mask alpha there is < 128; the raster and
\* the mask are unchanged.
C29_ExportedPixelsAreTheRasterPixels ==
    ExportedPNG =>
        LET sel == BoundsSelected(callPre.maskCanvas)
            minX == SetMin({ PX(p) : p \in sel })
            minY == SetMin({ PY(p) : p \in sel })
            maxX == SetMax({ PX(p) : p \in sel })
            maxY == SetMax({ PY(p) : p \in sel })
        IN  /\ Exported.width = maxX - minX + 1
            /\ Exported.height = maxY - minY + 1
            /\ \A x \in minX..maxX, y \in minY..maxY :
                  Exported.px[(y - minY) * Exported.width + (x - minX)] =
                     IF MaskRead(callPre.maskCanvas)[y * W + x] >= 128
                     THEN callPre.raster[y * W + x]
                     ELSE Transparent
            /\ raster = callPre.raster
            /\ maskCanvas = callPre.maskCanvas

\* C30: the selection bounds of a selector and the bounding box of the
\* exporter are absent iff the mask has no selected pixel, and are
\* otherwise the smallest rectangle that contains every selected pixel,
\* with 0 <= minX <= maxX < W and 0 <= minY <= maxY < H.
C30_SmallestRectangle ==
    /\ lastCall.op = "getSelectionBounds" =>
          LET sel == BoundsSelected(callPre.maskCanvas)
              b == returned.value
          IN  /\ b = NoBounds <=> sel = {}
              /\ sel # {} =>
                    /\ 0 <= b.minX /\ b.minX <= b.maxX /\ b.maxX < W
                    /\ 0 <= b.minY /\ b.minY <= b.maxY /\ b.maxY < H
                    /\ \A p \in sel : /\ b.minX <= PX(p) /\ PX(p) <= b.maxX
                                      /\ b.minY <= PY(p) /\ PY(p) <= b.maxY
                    /\ \E p \in sel : PX(p) = b.minX
                    /\ \E p \in sel : PX(p) = b.maxX
                    /\ \E p \in sel : PY(p) = b.minY
                    /\ \E p \in sel : PY(p) = b.maxY
    /\ (lastCall.op = "exportSelection" /\ ~Mismatch(callPre.maskCanvas)) =>
          LET sel == BoundsSelected(callPre.maskCanvas)
          IN  /\ lastCall.error # Null <=> sel = {}
              /\ sel # {} =>
                    /\ Exported.width =
                          SetMax({ PX(p) : p \in sel })
                             - SetMin({ PX(p) : p \in sel }) + 1
                    /\ Exported.height =
                          SetMax({ PY(p) : p \in sel })
                             - SetMin({ PY(p) : p \in sel }) + 1

\* bounds that begin after the first row and end before the last column
C30_Witness ==
    /\ lastCall.op = "getSelectionBounds"
    /\ returned.value # NoBounds
    /\ returned.value.minY > 0
    /\ returned.value.maxX < W - 1

(* ------------------------------------------------------------------ *)
(* Further properties of the BrushSelectionService (BrushSpec)         *)
(* ------------------------------------------------------------------ *)

\* the selector as the constructor and clearMask leave it
BrushCleared ==
    /\ overlay = ClearedOverlay
    /\ brush.selectionMask = Null
    /\ brush.lastX = NoCoord

\* the step is startSelection(x, y) with rim alpha f
StartStep(x, y, f) ==
    /\ strokeOpen'
    /\ brush' = BrushStart(brush, overlay, x, y, f).b
    /\ overlay' = BrushStart(brush, overlay, x, y, f).ov

\* C31: for every brush size n in 1..50 and every point (x, y) of the
\* raster, startSelection(x, y) then endSelection() on a cleared selector
\* give a mask that is not null, selects some pixel, and selects every
\* pixel within n/2 of (x, y).
C31_StampIsSelected ==
    [][\A x \in 0..(W - 1), y \in 0..(H - 1), f \in FringeAlphas :
          (/\ BrushCleared
           /\ brush.brushSize \in 1..50
           /\ StartStep(x, y, f)) =>
              /\ BrushHasMask(BrushEnd(brush', overlay').b)
              /\ BrushEnd(brush', overlay').b.maskData[y * W + x] = 255
              /\ \A p \in Pixels :
                    Dist2(p, 2 * x, 2 * y) <= brush.brushSize * brush.brushSize
                       => BrushEnd(brush', overlay').b.maskData[p] = 255]_vars

\* a finished stroke of the smallest brush: its mask selects some pixels
\* and not others
C31_Witness ==
    /\ ~strokeOpen
    /\ BrushHasMask(brush)
    /\ brush.brushSize = 1
    /\ \E p, q \in Pixels :
          brush.maskData[p] = 255 /\ brush.maskData[q] # 255

\* steps = max(1, floor(distance / 2)) for the segment from (lx, ly) to
\* (x, y)
StampSteps(lx, ly, x, y) ==
    IF ISqrt((x - lx) * (x - lx) + (y - ly) * (y - ly)) \div 2 > 1
    THEN ISqrt((x - lx) * (x - lx) + (y - ly) * (y - ly)) \div 2 ELSE 1

\* the step is continueSelection(x, y) with rim alpha f
ContinueStep(x, y, f) ==
    /\ events' = events + 1
    /\ strokeOpen' = strokeOpen
    /\ brush' = BrushContinue(brush, overlay, x, y, f).b
    /\ overlay' = BrushContinue(brush, overlay, x, y, f).ov

\* C32: while a stroke is active with last point L, whatever raster point
\* L is, continueSelection(x, y) stamps the brush at steps + 1 evenly
\* spaced points of the segment from L to (x, y), both ends included, with
\* steps = max(1, floor(distance / 2)), and makes (x, y) the last point.
C32_StampsFromTheLastPoint ==
    [][\A x \in 0..(W - 1), y \in 0..(H - 1), f \in FringeAlphas :
          (/\ strokeOpen
           /\ brush.isDrawing
           /\ brush.lastX # NoCoord
           /\ ContinueStep(x, y, f)) =>
              /\ overlay' =
                    DrawStamps(overlay, 0,
                               StampSteps(brush.lastX, brush.lastY, x, y),
                               brush.lastX, brush.lastY, x, y,
                               brush.brushSize, f)
              /\ brush'.lastX = x
              /\ brush'.lastY = y]_vars

(* ------------------------------------------------------------------ *)
(* HistoryService with calls that overlap a pending restore            *)
(* (specification OverlapSpec)                                         *)
(* ------------------------------------------------------------------ *)

\* restores that are pending at once
MaxPending == 2

\* number of HistoryService calls and paints of one run
MaxOverlapCalls == 5

\* one more call has been made
OverlapCalled == events < MaxOverlapCalls /\ events' = events + 1

\* a run of undo/redo calls none of which failed or was crossed by a
\* saveState, clearHistory or paint: scenario.step is 1 from its first call
BatchAfterBegin == [scenario EXCEPT !.step = IF inflight = <<>> THEN 1 ELSE @]

BatchBroken == [scenario EXCEPT !.step = 0]

\* the caller paints the raster
paintAnytime ==
    /\ \E r \in SampleRasters \ {raster} : raster' = r
    /\ lastCall' = [op |-> "mutate", result |-> TRUE]
    /\ scenario' = BatchBroken
    /\ UNCHANGED <<maxHistorySize, historyStack, currentIndex, inflight, callPre>>

\* saveState(canvas), whether or not a restore is pending
saveStateAnytime ==
    /\ callPre' = PreState
    /\ \E res \in { SaveStateResult(historyStack, currentIndex,
                                    maxHistorySize, raster) } :
          /\ historyStack' = res.stack
          /\ currentIndex' = res.idx
    /\ lastCall' = [op |-> "saveState", result |-> TRUE]
    /\ scenario' = BatchBroken
    /\ UNCHANGED <<raster, maxHistorySize, inflight>>

\* clearHistory(), whether or not a restore is pending
clearHistoryAnytime ==
    /\ callPre' = PreState
    /\ historyStack' = <<>>
    /\ currentIndex' = -1
    /\ lastCall' = [op |-> "clearHistory", result |-> TRUE]
    /\ scenario' = BatchBroken
    /\ UNCHANGED <<raster, maxHistorySize, inflight>>

\* undo(canvas) up to the await, whether or not a restore is pending
undoAnytime ==
    /\ Len(inflight) < MaxPending
    /\ callPre' = PreState
    /\ IF ~canUndo
       THEN /\ lastCall' = [op |-> "undo", result |-> FALSE]
            /\ UNCHANGED <<currentIndex, inflight, scenario>>
       ELSE IF Defined(historyStack, currentIndex - 1)
       THEN /\ currentIndex' = currentIndex - 1
            /\ inflight' = Append(inflight,
                 [op |-> "undo",
                  dataUrl |-> At(historyStack, currentIndex - 1).dataUrl])
            /\ lastCall' = [op |-> "undo", result |-> "pending"]
            /\ scenario' = BatchAfterBegin
       ELSE /\ currentIndex' = RolledBack("undo", currentIndex - 1)
            /\ lastCall' = [op |-> "undo", result |-> FALSE]
            /\ scenario' = BatchBroken
            /\ UNCHANGED inflight
    /\ UNCHANGED <<raster, maxHistorySize, historyStack>>

\* redo(canvas) up to the await, whether or not a restore is pending
redoAnytime ==
    /\ Len(inflight) < MaxPending
    /\ callPre' = PreState
    /\ IF ~canRedo
       THEN /\ lastCall' = [op |-> "redo", result |-> FALSE]
            /\ UNCHANGED <<currentIndex, inflight, scenario>>
       ELSE IF Defined(historyStack, currentIndex + 1)
       THEN /\ currentIndex' = currentIndex + 1
            /\ inflight' = Append(inflight,
                 [op |-> "redo",
                  dataUrl |-> At(historyStack, currentIndex + 1).dataUrl])
            /\ lastCall' = [op |-> "redo", result |-> "pending"]
            /\ scenario' = BatchAfterBegin
       ELSE /\ currentIndex' = RolledBack("redo", currentIndex + 1)
            /\ lastCall' = [op |-> "redo", result |-> FALSE]
            /\ scenario' = BatchBroken
            /\ UNCHANGED inflight
    /\ UNCHANGED <<raster, maxHistorySize, historyStack>>

\* img.onload of any pending restore: the snapshot is drawn
restoreResolved ==
    /\ \E i \in 1..Len(inflight) :
         /\ raster' = RestoredRaster(raster, inflight[i].dataUrl)
         /\ lastCall' = [op |-> inflight[i].op, result |-> TRUE]
         /\ inflight' = RemoveAt(inflight, i)
    /\ UNCHANGED <<maxHistorySize, historyStack, currentIndex, callPre,
                   scenario, events>>

\* img.onerror of any pending restore: the catch block of its undo or redo
\* steps the index back
restoreRejected ==
    /\ \E i \in 1..Len(inflight) :
         /\ currentIndex' = RolledBack(inflight[i].op, currentIndex)
         /\ lastCall' = [op |-> inflight[i].op, result |-> FALSE]
         /\ inflight' = RemoveAt(inflight, i)
    /\ scenario' = BatchBroken
    /\ UNCHANGED <<raster, maxHistorySize, historyStack, callPre, events>>

overlapFrame == <<brushVars, hostVars, maskVars, webLLM>>

OverlapNext ==
    \/ OverlapCalled /\ paintAnytime /\ UNCHANGED overlapFrame
    \/ OverlapCalled /\ saveStateAnytime /\ UNCHANGED overlapFrame
    \/ OverlapCalled /\ clearHistoryAnytime /\ UNCHANGED overlapFrame
    \/ OverlapCalled /\ undoAnytime /\ UNCHANGED overlapFrame
    \/ OverlapCalled /\ redoAnytime /\ UNCHANGED overlapFrame
    \/ restoreResolved /\ UNCHANGED overlapFrame
    \/ restoreRejected /\ UNCHANGED overlapFrame

OverlapSpec == Init /\ [][OverlapNext]_vars

\* the stack and the index fit: empty with -1, or an index of an entry
Consistent(stack, idx) ==
    \/ stack = <<>> /\ idx = -1
    \/ 0 <= idx /\ idx < Len(stack)

\* the step is the failure of a restore that was pending while the
\* saveState or clearHistory that completed last ran
FailsAfterSaveOrClear ==
    /\ lastCall \in { [op |-> "saveState", result |-> TRUE],
                      [op |-> "clearHistory", result |-> TRUE] }
    /\ Len(inflight') < Len(inflight)
    /\ lastCall'.result = FALSE

\* C33: when a saveState or clearHistory has run while a restore was
\* pending and that restore then fails, the rollback leaves the stack
\* consistent (empty with index -1, or 0 <= currentIndex < length) and
\* currentIndex on the entry the saveState or clearHistory left current.
C33_RollbackAfterSaveOrClear ==
    [][FailsAfterSaveOrClear =>
          /\ Consistent(historyStack', currentIndex')
          /\ currentIndex' = currentIndex]_vars

\* C34: when undo and redo calls overlapped and every restore succeeded,
\* in whatever order the images loaded, then once no restore is pending
\* the raster is the snapshot stored at currentIndex.
C34_OverlappedRestoresEndAtCurrentIndex ==
    (inflight = <<>> /\ scenario.step = 1) =>
        /\ Defined(historyStack, currentIndex)
        /\ raster = DecodeImage(At(historyStack, currentIndex).dataUrl)

(* ------------------------------------------------------------------ *)
(* The queue of floodFill (specification WandSpec)                     *)
(* ------------------------------------------------------------------ *)
\* the cells the flood fill of the last performMagicWand took from its
\* queue, in order
LastFloodProcessed ==
    FloodFillRun(raster, lastCall.x, lastCall.y,
                 TargetColor(raster, lastCall.x, lastCall.y),
                 callPre.w.tolerance).processed

\* C35: floodFill terminates on every raster: a cell is marked visited
\* before it is queued and is queued at most once, so no two cells taken
\* from the queue have the same array position and at most W * H cells
\* are processed.
C35_EachPixelIsQueuedOnce ==
    lastCall.op = "performMagicWand" =>
        \E done \in {LastFloodProcessed} :
            /\ Len(done) <= W * H
            /\ \A i, j \in 1..Len(done) :
                  CellIndex(done[i]) = CellIndex(done[j]) => i = j

\* a flood fill has processed every pixel of the raster
C35_Witness ==
    /\ lastCall.op = "performMagicWand"
    /\ Len(LastFloodProcessed) = W * H
    /\ \E p \in Pixels : wand.maskData[p] = 0

(* ------------------------------------------------------------------ *)
(* deleteSelectedArea against the bounding box of exportSelection     *)
(* (specification MaskSpec)                                            *)
(* ------------------------------------------------------------------ *)
\* the pixels deleteSelectedArea(mask, fillColor) would change on img for
\* a mask read as alpha
DeleteChanges(img, alpha, fillColor) ==
    { p \in Pixels : DeletePixels(img, alpha, fillColor)[p] # img[p] }

\* pixel p lies in the box b
InBox(b, p) ==
    /\ b.minX <= PX(p) /\ PX(p) <= b.maxX
    /\ b.minY <= PY(p) /\ PY(p) <= b.maxY

\* the last call was exportSelection with a mask the checks accept
ExportedAcceptedMask ==
    /\ lastCall.op = "exportSelection"
    /\ MaskError(callPre.maskCanvas) = Null

NoSelectionFound == "Failed to export selection: No selection found in mask"

\* C36 as stated: MaskService and ExportService agree on the selected
\* pixels: every pixel deleteSelectedArea would change lies inside the
\* bounding box exportSelection uses for the mask, and exportSelection
\* fails with "no selection" only when deleteSelectedArea changes no pixel.
C36_DeleteAndExportAgree ==
    ExportedAcceptedMask =>
        \E alpha \in { MaskRead(callPre.maskCanvas) } :
        \E b \in { GetSelectionBounds(alpha) } :
            \A fillColor \in FillColors :
            \A p \in DeleteChanges(raster, alpha, fillColor) :
                /\ lastCall.error # NoSelectionFound
                /\ b # NoBounds
                /\ InBox(b, p)

\* C36, amended: exportSelection fails with "no selection" exactly when no
\* mask pixel has alpha above 200; the bounding box it uses holds every
\* pixel deleteSelectedArea would change whose mask alpha is above 200;
\* the pixels deleteSelectedArea changes outside the box, or while the
\* export finds no selection, are those with mask alpha 129..200.
C36_ExportBoxHoldsTheOpaquePartOfDelete ==
    ExportedAcceptedMask =>
        \E alpha \in { MaskRead(callPre.maskCanvas) } :
        \E b \in { GetSelectionBounds(alpha) } :
            /\ (lastCall.error = NoSelectionFound) <=> (b = NoBounds)
            /\ (b = NoBounds) <=> (\A p \in Pixels : alpha[p] <= 200)
            /\ \A fillColor \in FillColors :
               \A p \in DeleteChanges(raster, alpha, fillColor) :
                  IF b = NoBounds \/ ~InBox(b, p)
                  THEN alpha[p] > 128 /\ alpha[p] <= 200
                  ELSE alpha[p] > 128

\* an export that found no selection in a mask with which
\* deleteSelectedArea would change a pixel
C36_Witness ==
    /\ ExportedAcceptedMask
    /\ lastCall.error = NoSelectionFound
    /\ \E fillColor \in FillColors :
          DeleteChanges(raster, MaskRead(callPre.maskCanvas), fillColor) # {}

(* ------------------------------------------------------------------ *)
(* The mask and the completion flag of PolygonSelectionService         *)
(* (specification PolygonSpec)                                         *)
(* ------------------------------------------------------------------ *)
\* the selector as the constructor leaves it: no vertex, not complete, no
\* mask, no preview position, the mask buffer and the overlay empty
PolygonIsInitial ==
    /\ polygon.points = <<>>
    /\ ~polygon.isComplete
    /\ polygon.selectionMask = Null
    /\ polygon.currentMousePos = NoPoint
    /\ \A p \in Pixels : polygon.maskData[p] = 0 /\ overlay[p] = 0

\* a click anywhere starts a new polygon: it is accepted and becomes the
\* only vertex
NewPolygonCanBeDrawn ==
    \A pt \in PointInputs :
        \E res \in { AddPoint(polygon, overlay, pt[1], pt[2], 0) } :
            /\ res.added
            /\ res.pg.points = << pt >>
            /\ ~res.pg.isComplete

\* C37: under the selector's own operations getSelectionMask() is
\* non-null exactly when isPolygonComplete() is true, in every reachable
\* state, and clearMask() returns the selector to its initial state (no
\* vertices, not complete, no mask, both buffers empty), from which a new
\* polygon can be drawn.
C37_MaskExactlyWhenComplete ==
    /\ (polygon.selectionMask # Null) <=> polygon.isComplete
    /\ lastCall.op = "clearMask" =>
          /\ PolygonIsInitial
          /\ NewPolygonCanBeDrawn

\* clearMask() has been called on a complete polygon
C37_Witness ==
    /\ lastCall.op = "clearMask"
    /\ callPre.isComplete
    /\ callPre.count >= 3

(* ------------------------------------------------------------------ *)
(* The engine singleton of the Web LLM service                         *)
(* (specification EngineSpec)                                          *)
(* ------------------------------------------------------------------ *)
\* engine creations of one run; creation k yields engine k and is awaited
\* through promise k
MaxCreations == 3

\* callers suspended on an initialization promise at once
MaxWaiting == 2

\* resetEngine calls suspended on unload() at once
MaxUnloading == 2

\* initializeEngine, parseCommand and resetEngine calls of one run
MaxEngineCalls == 6

\* the creations that CreateMLCEngine has not settled yet
PendingCreations(s) ==
    { k \in 1..Len(s.creations) : s.creations[k] = "pending" }

\* faulty variant: a call that finds no engine begins a creation even
\* while one is in progress
InitializeEngineNoJoin(s, fn) ==
    IF s.engineInstance # 0
    THEN [state |-> s, result |-> s.engineInstance]
    ELSE [state |-> [s EXCEPT
                       !.isInitializing = TRUE,
                       !.initializationPromise = Len(s.creations) + 1,
                       !.creations = Append(@, "pending"),
                       !.waiting = Append(@, [fn |-> fn,
                                              promise |-> Len(s.creations) + 1])],
          result |-> 0]

\* initializeEngine(progressCallback) up to its return, called by fn: the
\* engine when there is one, else the promise of the initialization in
\* progress, else a new creation and its promise; result 0 is a promise
\* not yet settled
InitializeEngine(s, fn) ==
    IF s.engineInstance # 0
    THEN [state |-> s, result |-> s.engineInstance]
    ELSE IF s.isInitializing /\ s.initializationPromise # 0
    THEN [state |-> [s EXCEPT
                       !.waiting = Append(@, [fn |-> fn,
                                              promise |-> s.initializationPromise])],
          result |-> 0]
    ELSE [state |-> [s EXCEPT
                       !.isInitializing = TRUE,
                       !.initializationPromise = Len(s.creations) + 1,
                       !.creations = Append(@, "pending"),
                       !.waiting = Append(@, [fn |-> fn,
                                              promise |-> Len(s.creations) + 1])],
          result |-> 0]

\* the first lines of parseCommand: initializeEngine is awaited only when
\* there is no engine
ParseCommand(s) ==
    IF s.engineInstance = 0 THEN InitializeEngine(s, "parseCommand")
    ELSE [state |-> s, result |-> s.engineInstance]

\* the callers of s.waiting that await promise k, each with what it gets
Delivery(s, k, engine) ==
    LET Awaits(w) == w.promise = k
        got == SelectSeq(s.waiting, Awaits)
    IN  [i \in 1..Len(got) |-> [fn |-> got[i].fn, engine |-> engine]]

StillWaiting(s, k) ==
    LET Others(w) == w.promise # k
    IN  SelectSeq(s.waiting, Others)

\* one more call on the Web LLM service has been made
EngineCalled == events < MaxEngineCalls /\ events' = events + 1

initializeEngine ==
    \E res \in { InitializeEngine(webLLM, "initializeEngine") } :
        /\ Len(res.state.creations) <= MaxCreations
        /\ Len(res.state.waiting) <= MaxWaiting
        /\ webLLM' = res.state
        /\ callPre' = webLLM
        /\ lastCall' = [op |-> "initializeEngine", result |-> res.result]

parseCommand ==
    \E res \in { ParseCommand(webLLM) } :
        /\ Len(res.state.creations) <= MaxCreations
        /\ Len(res.state.waiting) <= MaxWaiting
        /\ webLLM' = res.state
        /\ callPre' = webLLM
        /\ lastCall' = [op |-> "parseCommand", result |-> res.result]

\* CreateMLCEngine of creation k resolves: the engine is stored and the
\* callers awaiting promise k receive it
creationSucceeds ==
    \E k \in PendingCreations(webLLM) :
        /\ webLLM' = [webLLM EXCEPT !.engineInstance = k,
                                    !.isInitializing = FALSE,
                                    !.creations[k] = "resolved",
                                    !.waiting = StillWaiting(webLLM, k),
                                    !.delivered = Delivery(webLLM, k, k)]
        /\ callPre' = webLLM
        /\ lastCall' = [op |-> "creationSucceeded", result |-> k]
        /\ UNCHANGED events

\* CreateMLCEngine of creation k rejects: the catch block clears the
\* flag and the promise, the callers awaiting promise k get the error
creationFails ==
    \E k \in PendingCreations(webLLM) :
        /\ webLLM' = [webLLM EXCEPT !.isInitializing = FALSE,
                                    !.initializationPromise = 0,
                                    !.creations[k] = "rejected",
                                    !.waiting = StillWaiting(webLLM, k),
                                    !.delivered = Delivery(webLLM, k, 0)]
        /\ callPre' = webLLM
        /\ lastCall' = [op |-> "creationFailed", result |-> k]
        /\ UNCHANGED events

\* resetEngine() up to the await of unload(); nothing without an engine
resetEngine ==
    /\ webLLM.unloading < MaxUnloading
    /\ webLLM' = IF webLLM.engineInstance = 0 THEN webLLM
                 ELSE [webLLM EXCEPT
                         !.unloading = @ + 1,
                         !.overlapped = @ \/ webLLM.unloading > 0]
    /\ callPre' = webLLM
    /\ lastCall' = [op |-> "resetEngine", result |-> webLLM.engineInstance]

\* unload() of a pending resetEngine settles, resolved or rejected: the
\* three module variables are cleared
unloadSettled ==
    /\ webLLM.unloading > 0
    /\ webLLM' = [webLLM EXCEPT !.engineInstance = 0,
                                !.isInitializing = FALSE,
                                !.initializationPromise = 0,
                                !.unloading = @ - 1]
    /\ callPre' = webLLM
    /\ lastCall' = [op |-> "unloadSettled", result |-> 0]
    /\ UNCHANGED events

engineFrame ==
    <<raster, maxHistorySize, historyStack, currentIndex, inflight, scenario,
      brushVars, hostVars, maskVars>>

EngineNext ==
    \/ EngineCalled /\ initializeEngine /\ UNCHANGED engineFrame
    \/ EngineCalled /\ parseCommand /\ UNCHANGED engineFrame
    \/ EngineCalled /\ resetEngine /\ UNCHANGED engineFrame
    \/ creationSucceeds /\ UNCHANGED engineFrame
    \/ creationFails /\ UNCHANGED engineFrame
    \/ unloadSettled /\ UNCHANGED engineFrame

EngineSpec == BrushSpecInit /\ [][EngineNext]_vars

\* a call made now by fn begins a creation
StartsCreation(s, fn) ==
    InitializeEngine(s, fn).state.creations = Append(s.creations, "pending")

\* C38: across the interleavings of initializeEngine and parseCommand
\* calls (resetEngine calls made one at a time among them), at most one
\* engine creation is in flight and every caller that arrived during it
\* awaits that creation and receives its engine; after a failed creation
\* the flag and the promise are cleared, so that a later call starts a
\* fresh attempt; while an engine exists no creation is in flight and a
\* call returns that engine without starting one.
C38_OneEngineCreationAtATime ==
    ~webLLM.overlapped =>
        /\ Cardinality(PendingCreations(webLLM)) <= 1
        /\ \A i \in 1..Len(webLLM.waiting) :
              webLLM.waiting[i].promise \in PendingCreations(webLLM)
        /\ lastCall.op = "creationSucceeded" =>
              /\ webLLM.engineInstance = lastCall.result
              /\ webLLM.delivered
                    = [i \in 1..Len(callPre.waiting) |->
                         [fn |-> callPre.waiting[i].fn,
                          engine |-> lastCall.result]]
        /\ lastCall.op = "creationFailed" =>
              /\ ~webLLM.isInitializing
              /\ webLLM.initializationPromise = 0
        /\ (webLLM.engineInstance = 0 /\ PendingCreations(webLLM) = {}) =>
              StartsCreation(webLLM, "initializeEngine")
        /\ webLLM.engineInstance # 0 =>
              /\ PendingCreations(webLLM) = {}
              /\ InitializeEngine(webLLM, "initializeEngine")
                    = [state |-> webLLM, result |-> webLLM.engineInstance]
              /\ ParseCommand(webLLM)
                    = [state |-> webLLM, result |-> webLLM.engineInstance]

\* after a failed creation a second one has delivered its engine to an
\* initializeEngine and a parseCommand caller that arrived during it
C38_Witness ==
    /\ ~webLLM.overlapped
    /\ lastCall.op = "creationSucceeded"
    /\ \E k \in 1..Len(webLLM.creations) : webLLM.creations[k] = "rejected"
    /\ \E i, j \in 1..Len(webLLM.delivered) :
          /\ webLLM.delivered[i].fn = "initializeEngine"
          /\ webLLM.delivered[j].fn = "parseCommand"

====
